---- MODULE Spec2Model ----
(***************************************************************************)
(* Model of player_evaluation_app.py: the sidebar Filter Pipeline that     *)
(* turns rankings_df into filtered_df, and the tracking statistics         *)
(* (load_player_tracking / calculate_tracking_stats).                      *)
(*                                                                         *)
(* A pandas missing value (NaN / NaT / None) of a numeric column is the    *)
(* value NA; every real value of such a column is >= 0.  A missing         *)
(* player_category is the string NaNCategory.  RAS values and the RAS      *)
(* slider are in tenths (RAS 8.0 is 80, the slider step 0.5 is 5).         *)
(***************************************************************************)
EXTENDS Integers, Sequences, FiniteSets, TLC

VARIABLES
    rankings_df,          \* the Prospect table (set of rows), lines 479-480
    position_filter,      \* st.sidebar.radio "Position", lines 496-501
    selected_categories,  \* st.sidebar.multiselect "Categories", lines 517-521
    year_range,           \* st.sidebar.slider "Draft Year", lines 534-539
    ras_range,            \* st.sidebar.slider "RAS Range", lines 547-553
    filtered_df,          \* the working subset, lines 503-558
    tracking_source,      \* rows of game_data_24_secondary_all for one gsis_id
    tracking_cols,        \* the columns of that dataset
    player_tracking,      \* value returned by load_player_tracking
    stats,                \* value returned by calculate_tracking_stats
    pc,                   \* position of the run of the script
    now,                  \* wall clock in seconds
    tracking_cache,       \* entries of st.cache_data for load_player_tracking
    fetch_times,          \* per gsis_id, the times the dataset was read
    gsis_id,              \* the player chosen in the tracking tab, line 1205
    source_up,            \* whether the tracking dataset can be read
    served,               \* the cache entry load_player_tracking returned
    primary_source,       \* the Dataiku dataset of load_rankings_data
    fallback_source,      \* the CSV file of load_rankings_data
    ui,                   \* what the current run has put on the page
    profile_select,       \* st.selectbox "Select Player", line 665
    sort_by,              \* st.selectbox "Sort By", lines 868-872
    sorted_df,            \* filtered_df.sort_values(...), line 888
    great_table,          \* rows of the table create_great_table builds
    draft_info,           \* outcome of format_draft_pick, line 683
    display_tracking,     \* the frames the tracking views draw, line 1296
    zone_stats,           \* the Zone Analysis numbers, lines 1388-1403
    play_view_option,     \* st.radio "View:", lines 1262-1267
    play_select,          \* st.selectbox "Select Play", lines 1270-1274
    view_mode,            \* st.radio "View Mode:", lines 1286-1291
    current_frame,        \* st.slider "Frame", lines 1419-1426
    field_fig,            \* what the chosen view draws on the field
    compare_select,       \* st.multiselect "Select Players to Compare"
    compare_df,           \* rows of the compared players, line 765
    comparison_row,       \* one row of comparison_df, lines 800-817
    cell_styles,          \* styles highlight_cells returns for that row
    player_data,          \* the row the profile tab shows, line 670
    radar_values,         \* r of the player trace, lines 143-148
    selected_player_display,  \* st.selectbox "Select Player", line 663
    selected_tracking_player, \* st.selectbox of the tracking tab, line 1185
    player_info           \* the row the tracking tab resolves, line 1203

filterVars == <<rankings_df, position_filter, selected_categories,
                year_range, ras_range, filtered_df>>
trackingVars == <<tracking_source, tracking_cols, player_tracking, stats, pc>>
cacheVars == <<now, tracking_cache, fetch_times, gsis_id, source_up, served>>
loadVars == <<primary_source, fallback_source>>
tableVars == <<profile_select, sort_by, sorted_df, great_table, draft_info>>
heatVars == <<display_tracking, zone_stats>>
viewVars == <<play_view_option, play_select, view_mode, current_frame,
              field_fig>>
compareVars == <<compare_select, compare_df, comparison_row, cell_styles>>
profileVars == <<player_data, radar_values, selected_player_display,
                 selected_tracking_player, player_info>>
vars == <<rankings_df, position_filter, selected_categories, year_range,
          ras_range, filtered_df, tracking_source, tracking_cols,
          player_tracking, stats, pc, now, tracking_cache, fetch_times,
          gsis_id, source_up, served, primary_source, fallback_source, ui,
          profile_select, sort_by, sorted_df, great_table, draft_info, display_tracking,
          zone_stats, play_view_option, play_select, view_mode,
          current_frame, field_fig, compare_select, compare_df,
          comparison_row, cell_styles, player_data, radar_values,
          selected_player_display, selected_tracking_player, player_info>>

----------------------------------------------------------------------------
(* Bounds and sample data                                                  *)

MaxRows == 3

NA == -1

NaNCategory == "NaN"

NoSlider == <<>>

Range(s) == {s[i] : i \in DOMAIN s}

SetMin(S) == CHOOSE x \in S : \A y \in S : x <= y

SetMax(S) == CHOOSE x \in S : \A y \in S : x >= y

Min2(a, b) == IF a <= b THEN a ELSE b

Abs(x) == IF x < 0 THEN -x ELSE x

Prospect(id, pos, cat, season, ras) ==
    [player_id |-> id, position |-> pos, player_category |-> cat,
     draft_season |-> season, RAS |-> ras]

SampleProspects ==
    { Prospect(1,  "CB",  "Elite",         2020, 80),
      Prospect(2,  "CB",  "Elite",         2021, 30),
      Prospect(3,  "SAF", "Elite",         2021, 80),
      Prospect(4,  "CB",  "Developmental", 2020, NA),
      Prospect(5,  "SAF", "Developmental", NA,   80),
      Prospect(6,  "SAF", "Developmental", 2022, 30),
      Prospect(7,  "CB",  "Sleeper",       2021, 80),
      Prospect(8,  "SAF", "Sleeper",       NA,   NA),
      Prospect(9,  "CB",  NaNCategory,     2020, 80),
      Prospect(10, "CB",  "Elite",         NA,   50),
      Prospect(11, "SAF", "Elite",         2022, 55),
      Prospect(12, "SAF", NaNCategory,     NA,   30) }

Tables == {T \in SUBSET SampleProspects : T # {} /\ Cardinality(T) <= MaxRows}

RasStops == {0, 50, 100}

RasRanges == {rr \in RasStops \X RasStops : rr[1] <= rr[2]}

----------------------------------------------------------------------------
(* Filter Pipeline, lines 495-558                                          *)

CATEGORY_ORDER ==
    <<"Elite", "Producer", "Prospect", "Riser", "Risk", "Developmental">>

PositionOptions == {"All", "CB", "SAF"}

PositionFilter(df, pos) ==
    IF pos # "All" THEN {r \in df : r.position = pos} ELSE df

AllCategoriesInData(df) == {r.player_category : r \in df}

AvailableCategories(df) ==
    LET available == {c \in Range(CATEGORY_ORDER) : c \in AllCategoriesInData(df)}
    IN  IF available = {} THEN AllCategoriesInData(df) ELSE available

CategoryFilter_FallbackToData(df, selected) ==
    IF selected # {}
    THEN {r \in df : r.player_category \in selected}
    ELSE {r \in df : r.player_category \in
                        {c \in Range(CATEGORY_ORDER) : c \in AllCategoriesInData(df)}}

CategoryFilter(df, selected) ==
    IF selected # {}
    THEN {r \in df : r.player_category \in selected}
    ELSE df

Years(df) == {r.draft_season : r \in {q \in df : q.draft_season # NA}}

YearSliderShown_AtLeastOne(df) == Cardinality(Years(df)) > 0

YearSliderShown_ExactlyOne(df) == Cardinality(Years(df)) = 1

YearSliderShown(df) == Cardinality(Years(df)) > 1

YearSliderDefault(df) == <<SetMin(Years(df)), SetMax(Years(df))>>

YearSliderOptions(df) ==
    LET stops == SetMin(Years(df)) .. SetMax(Years(df))
    IN  {yr \in stops \X stops : yr[1] <= yr[2]}

YearSliderValue(df, yr) == IF yr = NoSlider THEN YearSliderDefault(df) ELSE yr

YearFilter_StrictUpper(df, yr) ==
    IF YearSliderShown(df)
    THEN LET v == YearSliderValue(df, yr)
         IN  {r \in df : /\ r.draft_season # NA
                         /\ r.draft_season >= v[1]
                         /\ r.draft_season < v[2]}
    ELSE df

YearFilter(df, yr) ==
    IF YearSliderShown(df)
    THEN LET v == YearSliderValue(df, yr)
         IN  {r \in df : /\ r.draft_season # NA
                         /\ r.draft_season >= v[1]
                         /\ r.draft_season <= v[2]}
    ELSE df

RASFilter_DropsMissing(df, rr) ==
    {r \in df : r.RAS # NA /\ r.RAS >= rr[1] /\ r.RAS <= rr[2]}

RASFilter(df, rr) ==
    {r \in df : \/ (r.RAS # NA /\ r.RAS >= rr[1] /\ r.RAS <= rr[2])
                \/ r.RAS = NA}

BeforeYearFilter(df, pos, selected) ==
    CategoryFilter(PositionFilter(df, pos), selected)

FilterPipeline(df, pos, selected, yr, rr) ==
    RASFilter(YearFilter(BeforeYearFilter(df, pos, selected), yr), rr)

(* One run of the script body for the current widget values.  The Draft    *)
(* Year slider has no key: it keeps its value while its min_value and      *)
(* max_value are unchanged and otherwise restarts at its default value;    *)
(* it has no value when it is not shown.                                   *)
YearRangeOnRerun(df, pos, selected, yr) ==
    LET before == BeforeYearFilter(df, pos, selected)
    IN  IF ~YearSliderShown(before) THEN NoSlider
        ELSE IF yr # NoSlider /\ yr \in YearSliderOptions(before)
                /\ year_range # NoSlider
                /\ YearSliderDefault(BeforeYearFilter(rankings_df,
                        position_filter, selected_categories))
                   = YearSliderDefault(before)
             THEN yr
             ELSE YearSliderDefault(before)

Rerun(pos, selected, yr, rr) ==
    LET yr2 == YearRangeOnRerun(rankings_df, pos, selected, yr)
    IN  /\ position_filter' = pos
        /\ selected_categories' = selected
        /\ year_range' = yr2
        /\ ras_range' = rr
        /\ filtered_df' = FilterPipeline(rankings_df, pos, selected, yr2, rr)
        /\ UNCHANGED rankings_df

SelectPosition ==
    \E pos \in PositionOptions \ {position_filter} :
        Rerun(pos, selected_categories, year_range, ras_range)

SelectCategories ==
    \E selected \in SUBSET AvailableCategories(rankings_df) :
        /\ selected # selected_categories
        /\ Rerun(position_filter, selected, year_range, ras_range)

MoveYearSlider ==
    LET before == BeforeYearFilter(rankings_df, position_filter,
                                   selected_categories)
    IN  /\ YearSliderShown(before)
        /\ \E yr \in YearSliderOptions(before) \ {year_range} :
               Rerun(position_filter, selected_categories, yr, ras_range)

MoveRASSlider ==
    \E rr \in RasRanges \ {ras_range} :
        Rerun(position_filter, selected_categories, year_range, rr)

InitFilter ==
    /\ rankings_df \in Tables
    /\ position_filter = "All"
    /\ selected_categories = AvailableCategories(rankings_df)
    /\ ras_range = <<0, 100>>
    /\ year_range =
          LET before == BeforeYearFilter(rankings_df, position_filter,
                                         selected_categories)
          IN  IF YearSliderShown(before) THEN YearSliderDefault(before)
              ELSE NoSlider
    /\ filtered_df = FilterPipeline(rankings_df, position_filter,
                                    selected_categories, year_range, ras_range)

TrackingIdle ==
    /\ tracking_source = <<>>
    /\ tracking_cols = {}
    /\ player_tracking = <<>>
    /\ stats = <<>>
    /\ pc = "idle"

CacheIdle ==
    /\ now = 0
    /\ tracking_cache = <<>>
    /\ fetch_times = <<>>
    /\ gsis_id = NA
    /\ source_up = TRUE
    /\ served = <<>>

LoadIdle ==
    /\ primary_source = <<>>
    /\ fallback_source = <<>>

TableIdle ==
    /\ profile_select = NA
    /\ sort_by = "Composite Rank"
    /\ sorted_df = <<>>
    /\ great_table = <<>>
    /\ draft_info = <<>>

HeatIdle ==
    /\ display_tracking = <<>>
    /\ zone_stats = <<>>

(* the variables of the parts of the application the filter and the      *)
(* tracking statistics do not touch                                        *)
ViewIdle ==
    /\ play_view_option = "All Plays Combined"
    /\ play_select = NA
    /\ view_mode = "Path View"
    /\ current_frame = 0
    /\ field_fig = <<>>

Placeholder == "-- Select a Player --"

CompareIdle ==
    /\ compare_select = {}
    /\ compare_df = <<>>
    /\ comparison_row = <<>>
    /\ cell_styles = <<>>

ProfileIdle ==
    /\ player_data = <<>>
    /\ radar_values = <<>>
    /\ selected_player_display = Placeholder
    /\ selected_tracking_player = Placeholder
    /\ player_info = <<>>

laterVars == <<viewVars, compareVars, profileVars>>

LaterIdle == ViewIdle /\ CompareIdle /\ ProfileIdle

restVars == <<cacheVars, loadVars, ui, tableVars, heatVars, laterVars>>

RestIdle ==
    CacheIdle /\ LoadIdle /\ ui = {} /\ TableIdle /\ HeatIdle /\ LaterIdle

Init == InitFilter /\ TrackingIdle /\ RestIdle

Next ==
    \/ SelectPosition /\ UNCHANGED <<trackingVars, restVars>>
    \/ SelectCategories /\ UNCHANGED <<trackingVars, restVars>>
    \/ MoveYearSlider /\ UNCHANGED <<trackingVars, restVars>>
    \/ MoveRASSlider /\ UNCHANGED <<trackingVars, restVars>>

Spec == Init /\ [][Next]_vars

----------------------------------------------------------------------------
(* Player tracking: load_player_tracking and calculate_tracking_stats,     *)
(* lines 934-1012.  A frame is a record with one field per column; the     *)
(* columns the dataset actually has are tracking_cols, and a field of a    *)
(* column it does not have is NA.  A float statistic is the exact fraction *)
(* <<numerator, denominator>>; counts are integers.  A dict is a function  *)
(* whose domain is its set of keys.                                        *)

MaxFrames == 3

MaxStatFrames == 2

TrackingColumns == {"ts", "s", "a", "dis", "dir", "play_id", "playId"}

Frame(ts, s, a, dis, dir, play_id, playId) ==
    [ts |-> ts, s |-> s, a |-> a, dis |-> dis, dir |-> dir,
     play_id |-> play_id, playId |-> playId]

SeqsUpTo(S, n) == UNION {[1..k -> S] : k \in 0..n}

(* Inputs for the heading statistics: timestamps with ties, headings on    *)
(* both sides of the 45 degree threshold (60 and 105 are exactly 45 apart) *)
(* and of the 0/360 seam, one heading outside 0..360, missing headings.    *)
Headings == {0, 10, 60, 65, 105, 180, 350, 420}

HeadingFrames ==
    {Frame(t, NA, NA, NA, d, NA, NA) : t \in {1, 2}, d \in Headings \cup {NA}}

HeadingColumns == {{"ts", "dir"}, {"dir"}}

(* Inputs for the presence of the statistics: frames with every column     *)
(* filled, with every column missing and with some missing.                *)
SampleFrames ==
    { Frame(1,  5,  2,  1,  10,  1,  7),
      Frame(3,  10, 1,  2,  100, 2,  7),
      Frame(NA, NA, NA, NA, NA,  NA, NA),
      Frame(NA, 15, NA, 1,  NA,  NA, 8),
      Frame(2,  NA, 3,  NA, 350, 1,  NA) }

OnlyColumns(frame, cols) ==
    [c \in TrackingColumns |-> IF c \in cols THEN frame[c] ELSE NA]

EmptyDict == <<>>

Column(df, c) == [i \in 1..Len(df) |-> df[i][c]]

NotNA(v) == v # NA

DropNA(series) == SelectSeq(series, NotNA)

RECURSIVE SeriesSum(_)
SeriesSum(series) ==
    IF series = <<>> THEN 0 ELSE Head(series) + SeriesSum(Tail(series))

SeriesMax(series) == SetMax(Range(series))

SeriesMin(series) == SetMin(Range(series))

NUnique(series) == Cardinality(Range(DropNA(series)))

MphNum == 2045

MphDen == 1000

WrapDegrees == 360

SignificantDegrees == 45

(* dirs.diff(): no value at the first position, then s[i] - s[i-1].  A     *)
(* value of the difference series is <<v>>, its missing value is <<>>.     *)
Diff(series) ==
    [i \in 1..Len(series) |->
        IF i = 1 THEN <<>> ELSE <<series[i] - series[i - 1]>>]

AbsSeries(series) ==
    [i \in 1..Len(series) |->
        IF series[i] = <<>> THEN <<>> ELSE <<Abs(series[i][1])>>]

(* lambda x: min(x, 360 - x) if pd.notna(x) else 0 *)
WrapAround_NoWrap(x) == IF x # <<>> THEN x[1] ELSE 0

WrapAround(x) == IF x # <<>> THEN Min2(x[1], WrapDegrees - x[1]) ELSE 0

DirChanges(dirs) ==
    LET dir_changes == AbsSeries(Diff(dirs))
    IN  [i \in 1..Len(dirs) |-> WrapAround(dir_changes[i])]

SignificantChanges(dirs) ==
    Cardinality({i \in 1..Len(dirs) : DirChanges(dirs)[i] > SignificantDegrees})

SpeedStats_MeanOverAllRows(df, cols) ==
    IF "s" \in cols
    THEN LET speeds == DropNA(Column(df, "s"))
         IN  IF Len(speeds) > 0
             THEN [max_speed_mph |-> <<SeriesMax(speeds) * MphNum, MphDen>>,
                   avg_speed_mph |-> <<SeriesSum(speeds) * MphNum,
                                       Len(df) * MphDen>>,
                   min_speed_mph |-> <<SeriesMin(speeds) * MphNum, MphDen>>]
             ELSE EmptyDict
    ELSE EmptyDict

SpeedStats(df, cols) ==
    IF "s" \in cols
    THEN LET speeds == DropNA(Column(df, "s"))
         IN  IF Len(speeds) > 0
             THEN [max_speed_mph |-> <<SeriesMax(speeds) * MphNum, MphDen>>,
                   avg_speed_mph |-> <<SeriesSum(speeds) * MphNum,
                                       Len(speeds) * MphDen>>,
                   min_speed_mph |-> <<SeriesMin(speeds) * MphNum, MphDen>>]
             ELSE EmptyDict
    ELSE EmptyDict

AccelerationStats(df, cols) ==
    IF "a" \in cols
    THEN LET accels == DropNA(Column(df, "a"))
         IN  IF Len(accels) > 0
             THEN [max_acceleration |-> <<SeriesMax(accels), 1>>,
                   avg_acceleration |-> <<SeriesSum(accels), Len(accels)>>]
             ELSE EmptyDict
    ELSE EmptyDict

DistanceStats(df, cols) ==
    IF "dis" \in cols
    THEN LET distances == DropNA(Column(df, "dis"))
         IN  IF Len(distances) > 0
             THEN [total_distance |-> <<SeriesSum(distances), 1>>,
                   avg_distance_per_frame |-> <<SeriesSum(distances),
                                                Len(distances)>>]
             ELSE EmptyDict
    ELSE EmptyDict

FrameStats(df) == [total_frames |-> Len(df)]

TimeStats(df, cols) ==
    IF "ts" \in cols
    THEN LET ts == DropNA(Column(df, "ts"))
         IN  IF Len(ts) > 1
             THEN [total_time_seconds |-> <<SeriesMax(ts) - SeriesMin(ts), 1>>]
             ELSE EmptyDict
    ELSE EmptyDict

PlayCountStats(df, cols) ==
    IF "play_id" \in cols
    THEN [play_count |-> NUnique(Column(df, "play_id"))]
    ELSE IF "playId" \in cols
    THEN [play_count |-> NUnique(Column(df, "playId"))]
    ELSE EmptyDict

DirectionStats_AnyLength(df, cols) ==
    IF "dir" \in cols
    THEN [direction_changes |-> SignificantChanges(DropNA(Column(df, "dir")))]
    ELSE EmptyDict

DirectionStats(df, cols) ==
    IF "dir" \in cols
    THEN LET dirs == DropNA(Column(df, "dir"))
         IN  IF Len(dirs) > 1
             THEN [direction_changes |-> SignificantChanges(dirs)]
             ELSE EmptyDict
    ELSE EmptyDict

calculate_tracking_stats(df, cols) ==
    IF Len(df) = 0
    THEN EmptyDict
    ELSE SpeedStats(df, cols) @@ AccelerationStats(df, cols)
         @@ DistanceStats(df, cols) @@ FrameStats(df) @@ TimeStats(df, cols)
         @@ PlayCountStats(df, cols) @@ DirectionStats(df, cols)

(* stats.get(key, 0), lines 1231-1243 and 1605-1624 *)
StatsGet(dict, key) == IF key \in DOMAIN dict THEN dict[key] ELSE 0

(* df.sort_values('ts'): ascending, missing timestamps last, equal         *)
(* timestamps in either order (the default sort is not stable).            *)
RowOrders(n) ==
    {f \in [1..n -> 1..n] : \A i, j \in 1..n : f[i] = f[j] => i = j}

TsBefore(a, b) == a.ts = b.ts \/ b.ts = NA \/ (a.ts # NA /\ a.ts < b.ts)

SortValuesTs_Descending(df) ==
    {sorted \in {[i \in 1..Len(df) |-> df[f[i]]] : f \in RowOrders(Len(df))} :
        \A i \in 1..Len(df) - 1 : TsBefore(sorted[i + 1], sorted[i])}

SortValuesTs(df) ==
    {sorted \in {[i \in 1..Len(df) |-> df[f[i]]] : f \in RowOrders(Len(df))} :
        \A i \in 1..Len(df) - 1 : TsBefore(sorted[i], sorted[i + 1])}

(* load_player_tracking, lines 935-950: the rows of the player, sorted by  *)
(* ts when the dataset has that column.                                    *)
LoadPlayerTracking ==
    /\ pc = "select"
    /\ player_tracking' \in
          (IF "ts" \in tracking_cols THEN SortValuesTs(tracking_source)
                                     ELSE {tracking_source})
    /\ pc' = "loaded"
    /\ UNCHANGED <<tracking_source, tracking_cols, stats>>

(* lines 1212-1218: no rows, the warning and the empty field are shown    *)
(* and nothing else                                                        *)
ShowNoTrackingData ==
    /\ pc = "loaded"
    /\ Len(player_tracking) = 0
    /\ ui' = ui \cup {"No tracking data found", "empty field"}
    /\ pc' = "no_data"
    /\ UNCHANGED <<tracking_source, tracking_cols, player_tracking, stats>>

(* lines 1219-1221 *)
CalculateTrackingStats ==
    /\ pc = "loaded"
    /\ Len(player_tracking) # 0
    /\ stats' = calculate_tracking_stats(player_tracking, tracking_cols)
    /\ pc' = "stats"
    /\ UNCHANGED <<tracking_source, tracking_cols, player_tracking>>

(* calculate_tracking_stats applied to a frame table as a function *)
CallCalculateTrackingStats ==
    /\ pc = "call"
    /\ stats' = calculate_tracking_stats(player_tracking, tracking_cols)
    /\ pc' = "returned"
    /\ UNCHANGED <<tracking_source, tracking_cols, player_tracking>>

FilterIdle ==
    /\ rankings_df = {}
    /\ position_filter = "All"
    /\ selected_categories = {}
    /\ year_range = NoSlider
    /\ ras_range = <<0, 100>>
    /\ filtered_df = {}

InitTracking ==
    /\ tracking_cols \in HeadingColumns
    /\ tracking_source \in
          {[i \in DOMAIN src |-> OnlyColumns(src[i], tracking_cols)] :
              src \in SeqsUpTo(HeadingFrames, MaxFrames)}
    /\ player_tracking = <<>>
    /\ stats = EmptyDict
    /\ pc = "select"
    /\ FilterIdle /\ RestIdle

NextTracking ==
    \/ LoadPlayerTracking /\ UNCHANGED <<filterVars, restVars>>
    \/ ShowNoTrackingData
          /\ UNCHANGED <<filterVars, cacheVars, loadVars, tableVars, heatVars,
                         laterVars>>
    \/ CalculateTrackingStats /\ UNCHANGED <<filterVars, restVars>>

SpecTracking == InitTracking /\ [][NextTracking]_vars

InitStats ==
    /\ tracking_cols \in SUBSET TrackingColumns
    /\ player_tracking \in
          {[i \in DOMAIN df |-> OnlyColumns(df[i], tracking_cols)] :
              df \in SeqsUpTo(SampleFrames, MaxStatFrames)}
    /\ tracking_source = player_tracking
    /\ stats = EmptyDict
    /\ pc = "call"
    /\ FilterIdle /\ RestIdle

NextStats == CallCalculateTrackingStats /\ UNCHANGED <<filterVars, restVars>>

SpecStats == InitStats /\ [][NextStats]_vars

(* calculate_tracking_stats on frame tables that differ in their speed     *)
(* samples only (yards per second, integers)                               *)
MaxSpeedFrames == 3

SpeedSamples == {NA, 0, 5, 10, 15}

SpeedFrames == {Frame(NA, s, NA, NA, NA, NA, NA) : s \in SpeedSamples}

InitSpeed ==
    /\ tracking_cols \in {{"s"}, {"ts"}}
    /\ player_tracking \in
          {[i \in DOMAIN df |-> OnlyColumns(df[i], tracking_cols)] :
              df \in SeqsUpTo(SpeedFrames, MaxSpeedFrames)}
    /\ tracking_source = player_tracking
    /\ stats = EmptyDict
    /\ pc = "call"
    /\ FilterIdle /\ RestIdle

NextSpeed == CallCalculateTrackingStats /\ UNCHANGED <<filterVars, restVars>>

SpecSpeed == InitSpeed /\ [][NextSpeed]_vars

----------------------------------------------------------------------------
(* load_player_tracking behind st.cache_data(ttl=600), and the tracking    *)
(* tab that calls it.  The clock advances in steps of TickSeconds between  *)
(* runs of the script; a run takes no time on that scale.                  *)

Ttl == 600

TickSeconds == 200

MaxTicks == 5

PlayerIds == {1, 2}

SourceStates ==
    {"ok", "connection error", "dataset not found", "no gsis_id column"}

TrackingRow(g, ts, dir) ==
    [gsis_id |-> g] @@ Frame(ts, NA, NA, NA, dir, NA, NA)

(* game_data_24_secondary_all before and after an update of the dataset *)
DatasetBefore ==
    <<TrackingRow(1, 2, 10), TrackingRow(1, 1, 350)>>

DatasetAfter ==
    DatasetBefore \o <<TrackingRow(2, 1, 60), TrackingRow(1, 3, 105)>>

(* df[df['gsis_id'] == gsis_id], line 943 *)
RowsOfPlayer(df, id) == SelectSeq(df, LAMBDA row : row.gsis_id = id)

(* the except branch, lines 950-952 *)
LoadFailureResult_Silent(kind) ==
    [value |-> <<>>, messages |-> {}]

LoadFailureResult(kind) ==
    [value |-> <<>>,
     messages |-> {"Error loading tracking data: " \o kind}]

(* the body of load_player_tracking, lines 936-952: the values it can     *)
(* return together with the messages it puts on the page                   *)
LoadPlayerTrackingBody(df, cols, source, id) ==
    IF source = "ok"
    THEN {[value |-> sorted, messages |-> {}] :
             sorted \in (IF "ts" \in cols
                         THEN SortValuesTs(RowsOfPlayer(df, id))
                         ELSE {RowsOfPlayer(df, id)})}
    ELSE {LoadFailureResult(source)}

(* st.cache_data(ttl=600), line 934: one entry per argument value, usable *)
(* until ttl seconds after it was written                                  *)
CacheFresh_IgnoresAge(cache, id, time) == id \in DOMAIN cache

CacheFresh(cache, id, time) ==
    id \in DOMAIN cache /\ time < cache[id].written + Ttl

CachePut(cache, id, entry) ==
    [k \in DOMAIN cache \cup {id} |-> IF k = id THEN entry ELSE cache[k]]

(* lines 1205-1210: the player is chosen and load_player_tracking is      *)
(* called through the cache; messages of a cached call are replayed       *)
AccessPlayerTracking ==
    /\ pc = "select"
    /\ \E id \in PlayerIds :
          /\ gsis_id' = id
          /\ IF CacheFresh(tracking_cache, id, now)
             THEN /\ served' = [tracking_cache[id] EXCEPT !.fetched = FALSE]
                  /\ UNCHANGED <<tracking_cache, fetch_times>>
             ELSE \E result \in LoadPlayerTrackingBody(tracking_source,
                                      tracking_cols, source_up, id) :
                     LET entry == [value |-> result.value,
                                   messages |-> result.messages,
                                   written |-> now,
                                   fetched |-> TRUE]
                     IN  /\ served' = entry
                         /\ tracking_cache' =
                                CachePut(tracking_cache, id, entry)
                         /\ fetch_times' =
                                [fetch_times EXCEPT ![id] = @ \cup {now}]
    /\ player_tracking' = served'.value
    /\ ui' = served'.messages
    /\ pc' = "loaded"
    /\ UNCHANGED <<tracking_source, tracking_cols, stats, now, source_up>>

(* the next run of the script: the page is drawn anew *)
RerunTrackingTab ==
    /\ pc \in {"no_data", "stats"}
    /\ pc' = "select"
    /\ ui' = {}
    /\ stats' = EmptyDict
    /\ player_tracking' = <<>>
    /\ UNCHANGED <<tracking_source, tracking_cols, cacheVars>>

Tick ==
    /\ pc = "select"
    /\ now < MaxTicks * TickSeconds
    /\ now' = now + TickSeconds
    /\ UNCHANGED <<trackingVars, tracking_cache, fetch_times, gsis_id,
                   source_up, served, ui>>

SourceChanges ==
    /\ pc = "select"
    /\ source_up' \in SourceStates \ {source_up}
    /\ UNCHANGED <<trackingVars, now, tracking_cache, fetch_times, gsis_id,
                   served, ui>>

DatasetUpdated ==
    /\ pc = "select"
    /\ tracking_source = DatasetBefore
    /\ tracking_source' = DatasetAfter
    /\ UNCHANGED <<tracking_cols, player_tracking, stats, pc, cacheVars, ui>>

InitCache ==
    /\ tracking_source = DatasetBefore
    /\ tracking_cols = {"ts", "dir"}
    /\ player_tracking = <<>>
    /\ stats = EmptyDict
    /\ pc = "select"
    /\ now = 0
    /\ tracking_cache = <<>>
    /\ fetch_times = [id \in PlayerIds |-> {}]
    /\ gsis_id = NA
    /\ source_up \in SourceStates
    /\ served = <<>>
    /\ ui = {}
    /\ FilterIdle /\ LoadIdle /\ TableIdle /\ HeatIdle /\ LaterIdle

cacheRest == <<filterVars, loadVars, tableVars, heatVars, laterVars>>

NextCache ==
    \/ AccessPlayerTracking /\ UNCHANGED cacheRest
    \/ ShowNoTrackingData /\ UNCHANGED <<cacheVars, cacheRest>>
    \/ CalculateTrackingStats /\ UNCHANGED <<cacheVars, ui, cacheRest>>
    \/ RerunTrackingTab /\ UNCHANGED cacheRest
    \/ Tick /\ UNCHANGED cacheRest
    \/ SourceChanges /\ UNCHANGED cacheRest
    \/ DatasetUpdated /\ UNCHANGED cacheRest

SpecCache == InitCache /\ [][NextCache]_vars

----------------------------------------------------------------------------
(* load_rankings_data and the start of a run of the script, lines 104-116  *)
(* and 479-576.  A data source is a record: whether reading it succeeds    *)
(* and the table it then yields.                                           *)

Source(up, table) == [up |-> up, table |-> table]

Unavailable == Source(FALSE, {})

PrimarySources == {Unavailable} \cup {Source(TRUE, t) : t \in Tables \cup {{}}}

FallbackSources ==
    {Unavailable, Source(TRUE, {}),
     Source(TRUE, {Prospect(1, "CB", "Elite", 2022, 80)})}

DashboardComponents ==
    {"sidebar filters", "tab 1", "tab 2", "tab 3", "tab 4", "tab 5"}

DataikuWarning == "Could not connect to Dataiku. Using sample data."

NoDataError == "No data loaded. Please check the data source."

(* an exception no handler catches ends the run; Streamlit shows it *)
UncaughtException == "uncaught exception"

(* rankings_df.empty, line 482 *)
HaltsOnEmpty_Never(df) == FALSE

HaltsOnEmpty(df) == df = {}

(* load_rankings_data, lines 104-116, called at line 480: the primary     *)
(* source, else the warning and the CSV file; an error of the CSV read is *)
(* not caught                                                              *)
LoadRankingsData ==
    /\ pc = "start"
    /\ IF primary_source.up
       THEN /\ rankings_df' = primary_source.table
            /\ ui' = ui
            /\ pc' = "loaded"
       ELSE IF fallback_source.up
       THEN /\ rankings_df' = fallback_source.table
            /\ ui' = ui \cup {DataikuWarning}
            /\ pc' = "loaded"
       ELSE /\ rankings_df' = rankings_df
            /\ ui' = ui \cup {DataikuWarning, UncaughtException}
            /\ pc' = "crashed"
    /\ UNCHANGED <<position_filter, selected_categories, year_range,
                   ras_range, filtered_df, loadVars>>

(* lines 482-484: st.error and st.stop() *)
StopOnEmpty ==
    /\ pc = "loaded"
    /\ HaltsOnEmpty(rankings_df)
    /\ ui' = ui \cup {NoDataError}
    /\ pc' = "stopped"
    /\ UNCHANGED <<filterVars, loadVars>>

(* lines 490-564: the sidebar widgets with their default values *)
RenderSidebar ==
    /\ pc = "loaded"
    /\ ~HaltsOnEmpty(rankings_df)
    /\ position_filter' = "All"
    /\ selected_categories' = AvailableCategories(rankings_df)
    /\ ras_range' = <<0, 100>>
    /\ year_range' =
          LET before == BeforeYearFilter(rankings_df, position_filter',
                                         selected_categories')
          IN  IF YearSliderShown(before) THEN YearSliderDefault(before)
              ELSE NoSlider
    /\ filtered_df' = FilterPipeline(rankings_df, position_filter',
                                     selected_categories', year_range',
                                     ras_range')
    /\ ui' = ui \cup {"sidebar filters"}
    /\ pc' = "sidebar"
    /\ UNCHANGED <<rankings_df, loadVars>>

(* lines 570-576 and the five `with tab` blocks *)
RenderTabs ==
    /\ pc = "sidebar"
    /\ ui' = ui \cup {"tab 1", "tab 2", "tab 3", "tab 4", "tab 5"}
    /\ pc' = "done"
    /\ UNCHANGED <<filterVars, loadVars>>

InitLoad ==
    /\ primary_source \in PrimarySources
    /\ fallback_source \in FallbackSources
    /\ ui = {}
    /\ pc = "start"
    /\ tracking_source = <<>>
    /\ tracking_cols = {}
    /\ player_tracking = <<>>
    /\ stats = <<>>
    /\ FilterIdle /\ CacheIdle /\ TableIdle /\ HeatIdle /\ LaterIdle

loadRest ==
    <<tracking_source, tracking_cols, player_tracking, stats, cacheVars,
      tableVars, heatVars, laterVars>>

NextLoad ==
    \/ LoadRankingsData /\ UNCHANGED loadRest
    \/ StopOnEmpty /\ UNCHANGED loadRest
    \/ RenderSidebar /\ UNCHANGED loadRest
    \/ RenderTabs /\ UNCHANGED loadRest

SpecLoad == InitLoad /\ [][NextLoad]_vars

----------------------------------------------------------------------------
(* format_draft_pick, create_great_table and the tabs that use them.  A    *)
(* missing text value is NaNText.  The outcome of a call that can raise is *)
(* <<"return", value>> or <<"raise", exception>>.                          *)

MaxTableRows == 3

NaNText == "NaN"

RankedProspect(id, cat, score, comp, ras, ath, col, nfl, yr, rnd, pick, club, college, photo) ==
    [id |-> id, player_category |-> cat, composite_score |-> score,
     composite_rank |-> comp, RAS |-> ras, athletic_potential_rank |-> ath,
     college_production_rank |-> col, nfl_production_rank |-> nfl,
     draft_season |-> yr, draft_round |-> rnd,
     draft_overall_selection |-> pick, draft_club_name |-> club,
     team_name |-> college, headshot_url |-> photo]

(* Rows with every field present, with names of 18 and of more than 18    *)
(* characters, with each field missing, with a round but no pick and a    *)
(* pick but no round, of an unlisted and of a missing category.           *)
RankedProspects ==
    { RankedProspect(1, "Elite", 95, 1, 50, 3, 2, 1, 2022, 1, 15,
                     "New York Jets", "Ohio State", "http://img/1.png"),
      RankedProspect(2, "Elite", 90, 2, 90, 1, 3, 2, 2021, 2, 40,
                     "Jacksonville Jaguars", "Alabama", ""),
      RankedProspect(3, "Producer", 85, 3, NA, NA, 1, NA, 2023, NA, NA,
                     NaNText, "Louisiana State University", NaNText),
      RankedProspect(4, "Developmental", 40, 6, 70, 2, NA, NA, 2023, 3, NA,
                     "Detroit Lions", NaNText, "http://img/4.png"),
      RankedProspect(5, "Sleeper", 60, 4, 90, 5, 5, 4, 2022, 4, 120,
                     "Miami Dolphins", "Texas", "http://img/5.png"),
      RankedProspect(6, NaNCategory, NA, NA, NA, NA, NA, NA, NA, NA, 200,
                     NaNText, NaNText, NaNText),
      RankedProspect(7, "Risk", 70, 5, 85, 4, 4, 3, 2021, 7, 250,
                     "Kansas City Chiefs", "Georgia", "http://img/7.png"),
      RankedProspect(8, "Riser", 65, 7, 60, 6, 6, NA, 2023, 5, NA,
                     "Dallas Cowboys", "Oregon", NaNText) }

RankedTables ==
    {T \in SUBSET RankedProspects : T # {} /\ Cardinality(T) <= MaxTableRows}

Return(value) == <<"return", value>>

Raise(exception) == <<"raise", exception>>

Raised(outcome) == outcome # <<>> /\ outcome[1] = "raise"

(* lines 131-135 *)
format_draft_pick_UdfaWhenPickMissing(row) ==
    IF row.draft_round = NA \/ row.draft_overall_selection = NA
    THEN Return("UDFA")
    ELSE Return("R" \o ToString(row.draft_round) \o " #"
                \o ToString(row.draft_overall_selection))

format_draft_pick(row) ==
    IF row.draft_round = NA
    THEN Return("UDFA")
    ELSE IF row.draft_overall_selection = NA
    THEN Raise("ValueError")
    ELSE Return("R" \o ToString(row.draft_round) \o " #"
                \o ToString(row.draft_overall_selection))

(* the em dash and the bust glyph *)
EmDash == "--"

PhotoGlyph == "(bust)"

UnknownCategoryOrder == 99

TruncateOver == 18

TruncateTo == 15

(* lines 331-333: the position in CATEGORY_ORDER, counted from 0 *)
CategoryIndex_UnknownFirst(x) ==
    IF \E i \in DOMAIN CATEGORY_ORDER : CATEGORY_ORDER[i] = x
    THEN (CHOOSE i \in DOMAIN CATEGORY_ORDER : CATEGORY_ORDER[i] = x) - 1
    ELSE 0

CategoryIndex(x) ==
    IF \E i \in DOMAIN CATEGORY_ORDER : CATEGORY_ORDER[i] = x
    THEN (CHOOSE i \in DOMAIN CATEGORY_ORDER : CATEGORY_ORDER[i] = x) - 1
    ELSE UnknownCategoryOrder

(* the per-column formatters, lines 338-369 *)
FormatYear(x) == IF x # NA THEN ToString(x) ELSE EmDash

FormatRound(x) == IF x # NA THEN "R" \o ToString(x) ELSE "UDFA"

FormatPick(x) == IF x # NA THEN "#" \o ToString(x) ELSE EmDash

(* two decimals of a value kept in tenths *)
FormatRAS(x) ==
    IF x # NA
    THEN ToString(x \div 10) \o "." \o ToString(x % 10) \o "0"
    ELSE EmDash

FormatRank(x) == IF x # NA THEN ToString(x) ELSE EmDash

FormatName_FromThreshold(x) ==
    IF x # NaNText /\ Len(x) >= TruncateOver
    THEN SubSeq(x, 1, TruncateTo) \o "..."
    ELSE IF x # NaNText THEN x ELSE EmDash

FormatName(x) ==
    IF x # NaNText /\ Len(x) > TruncateOver
    THEN SubSeq(x, 1, TruncateTo) \o "..."
    ELSE IF x # NaNText THEN x ELSE EmDash

FormatPhoto(x) ==
    IF x # NaNText /\ x # ""
    THEN "<img src=\"" \o x \o "\" style=\"height:40px; width:40px; "
         \o "object-fit:cover; border-radius:50%;\">"
    ELSE PhotoGlyph

(* lines 879-885 *)
SortChoices ==
    {"Composite Rank", "RAS", "Athletic Rank", "College Rank", "NFL Rank"}

sort_map ==
    [choice \in SortChoices |->
        CASE choice = "Composite Rank" -> <<"composite_rank", TRUE>>
          [] choice = "RAS" -> <<"RAS", FALSE>>
          [] choice = "Athletic Rank" -> <<"athletic_potential_rank", TRUE>>
          [] choice = "College Rank" -> <<"college_production_rank", TRUE>>
          [] choice = "NFL Rank" -> <<"nfl_production_rank", TRUE>>]

(* df.sort_values(col, ascending=...), line 888: missing values last,     *)
(* rows with equal keys in any order                                       *)
KeyBefore(a, b, ascending) ==
    \/ b = NA
    \/ a # NA /\ (IF ascending THEN a <= b ELSE a >= b)

Listings(df) ==
    {rows \in [1..Cardinality(df) -> df] :
        \A i, j \in 1..Cardinality(df) : rows[i] = rows[j] => i = j}

SortValues(df, col, ascending) ==
    {rows \in Listings(df) :
        \A i \in 1..Len(rows) - 1 :
            KeyBefore(rows[i][col], rows[i + 1][col], ascending)}

(* sort_values(['Category_Order', 'Overall'], ascending=[True, True]),    *)
(* line 334: a stable sort, missing Overall last within its category      *)
TableKeyLess(a, b) ==
    \/ CategoryIndex(a.player_category) < CategoryIndex(b.player_category)
    \/ /\ CategoryIndex(a.player_category) = CategoryIndex(b.player_category)
       /\ a.composite_rank # NA
       /\ (b.composite_rank = NA \/ a.composite_rank < b.composite_rank)

SortByCategoryThenOverall(df) ==
    LET f == CHOOSE g \in RowOrders(Len(df)) :
                 \A i, j \in 1..Len(df) : i < j =>
                     \/ TableKeyLess(df[g[i]], df[g[j]])
                     \/ ~TableKeyLess(df[g[j]], df[g[i]]) /\ g[i] < g[j]
    IN  [i \in 1..Len(df) |-> df[f[i]]]

(* lines 299-369: the display columns of one row, renamed and formatted *)
FormatRow(row) ==
    [Photo |-> FormatPhoto(row.headshot_url),
     Player |-> row.id,
     Year |-> FormatYear(row.draft_season),
     Round |-> FormatRound(row.draft_round),
     Pick |-> FormatPick(row.draft_overall_selection),
     NFL_Team |-> FormatName(row.draft_club_name),
     College |-> FormatName(row.team_name),
     RAS |-> FormatRAS(row.RAS),
     Ath_Rank |-> FormatRank(row.athletic_potential_rank),
     Col_Rank |-> FormatRank(row.college_production_rank),
     NFL_Rank |-> FormatRank(row.nfl_production_rank),
     Overall |-> FormatRank(row.composite_rank),
     Category |-> row.player_category]

(* GT(table_df, groupname_col='Category'), line 373: the rows of a group  *)
(* together, the groups in the order of their first row                   *)
RECURSIVE GroupRows(_)
GroupRows(rows) ==
    IF rows = <<>> THEN <<>>
    ELSE SelectSeq(rows, LAMBDA r : r.Category = Head(rows).Category)
         \o GroupRows(SelectSeq(rows,
                                LAMBDA r : r.Category # Head(rows).Category))

(* lines 296-420 *)
create_great_table(df) ==
    LET table_df == SortByCategoryThenOverall(df)
    IN  GroupRows([i \in 1..Len(table_df) |-> FormatRow(table_df[i])])

(* lines 635-646: the dashboard tab formats the draft pick of the three   *)
(* players with the largest composite score of each category it shows     *)
DashboardCategories == {"Elite", "Producer", "Prospect", "Riser", "Risk"}

TopPlayersPerCategory == 3

ScoreAbove(a, b) ==
    a.composite_score # NA /\
        (b.composite_score = NA \/ a.composite_score > b.composite_score)

TopPlayers(df, category) ==
    LET cat_players == {r \in df : r.player_category = category}
    IN  {r \in cat_players :
            Cardinality({q \in cat_players : ScoreAbove(q, r)})
                < TopPlayersPerCategory}

DashboardRaises(df) ==
    \E category \in DashboardCategories : \E r \in TopPlayers(df, category) :
        Raised(format_draft_pick(r))

(* filtered_df[...player_display_name == player_name].iloc[0], line 670 *)
PlayerData(df, id) == CHOOSE r \in df : r.id = id

(* One run of the script from the tabs on, lines 582-921: what it leaves  *)
(* on the page.  An exception no handler catches ends the run.            *)
TabsRun(df, sort, profile) ==
    IF DashboardRaises(df)
    THEN {[draft_info |-> <<>>, sorted_df |-> <<>>, great_table |-> <<>>,
           ui |-> {"tab 1", UncaughtException}]}
    ELSE LET info == IF profile = NA THEN <<>>
                     ELSE format_draft_pick(PlayerData(df, profile))
         IN  IF Raised(info)
             THEN {[draft_info |-> info, sorted_df |-> <<>>,
                    great_table |-> <<>>,
                    ui |-> {"tab 1", "tab 2", UncaughtException}]}
             ELSE {[draft_info |-> info, sorted_df |-> sorted,
                    great_table |-> create_great_table(sorted),
                    ui |-> {"tab 1", "tab 2", "tab 3", "tab 4"}] :
                      sorted \in SortValues(df, sort_map[sort][1],
                                            sort_map[sort][2])}

ShowRun(run) ==
    /\ draft_info' = run.draft_info
    /\ sorted_df' = run.sorted_df
    /\ great_table' = run.great_table
    /\ ui' = run.ui

(* st.selectbox "Sort By", lines 868-872, and the run it starts *)
ChooseSortBy ==
    /\ \E choice \in SortChoices \ {sort_by} :
          /\ sort_by' = choice
          /\ \E run \in TabsRun(filtered_df, choice, profile_select) :
                ShowRun(run)
    /\ UNCHANGED <<profile_select, filterVars>>

(* st.selectbox "Select Player", line 665, and the run it starts *)
SelectProfilePlayer ==
    /\ \E id \in ({r.id : r \in filtered_df} \cup {NA}) \ {profile_select} :
          /\ profile_select' = id
          /\ \E run \in TabsRun(filtered_df, sort_by, id) : ShowRun(run)
    /\ UNCHANGED <<sort_by, filterVars>>

InitTable ==
    /\ rankings_df = {}
    /\ position_filter = "All"
    /\ selected_categories = {}
    /\ year_range = NoSlider
    /\ ras_range = <<0, 100>>
    /\ filtered_df \in RankedTables
    /\ profile_select = NA
    /\ sort_by = "Composite Rank"
    /\ \E run \in TabsRun(filtered_df, sort_by, profile_select) :
          /\ draft_info = run.draft_info
          /\ sorted_df = run.sorted_df
          /\ great_table = run.great_table
          /\ ui = run.ui
    /\ TrackingIdle /\ CacheIdle /\ LoadIdle /\ HeatIdle /\ LaterIdle

tableRest == <<trackingVars, cacheVars, loadVars, heatVars, laterVars>>

NextTable ==
    \/ ChooseSortBy /\ UNCHANGED tableRest
    \/ SelectProfilePlayer /\ UNCHANGED tableRest

SpecTable == InitTable /\ [][NextTable]_vars

----------------------------------------------------------------------------
(* Heat map view of the tracking tab, lines 1323-1405.  Coordinates are in *)
(* tenths of a yard (x 60 is 600, y 33.3 is 333).                          *)

MaxHeatFrames == 3

MidfieldX == 600

NearEndX == 300

FarEndX == 900

MiddleLowY == 200

MiddleHighY == 333

XYFrame(ts, x, y) == [ts |-> ts, x |-> x, y |-> y]

(* x on both sides of and on the 60 yard line and beyond the 30 and 90    *)
(* yard lines, y inside, outside and on the edge of the middle band       *)
XYFrames ==
    {XYFrame(NA, x, y) : x \in {NA, 250, 600, 950}, y \in {NA, 100, 250, 333}}

HeatMapColumns == {{"ts", "x", "y"}, {"ts", "x"}}

(* a quotient times 100; 0/0 is nan, kept as the fraction <<0, 0>> *)
Percent(count, total) == <<count * 100, total>>

(* lines 1390-1391 *)
LeftSide_Inclusive(x_coords) ==
    Len(SelectSeq(x_coords, LAMBDA x : x <= MidfieldX))

LeftSide(x_coords) == Len(SelectSeq(x_coords, LAMBDA x : x < MidfieldX))

RightSide(x_coords) == Len(SelectSeq(x_coords, LAMBDA x : x >= MidfieldX))

(* line 1397 *)
Deep(x_coords) ==
    Len(SelectSeq(x_coords, LAMBDA x : x < NearEndX \/ x > FarEndX))

(* line 1402 *)
Middle(y_coords) ==
    Len(SelectSeq(y_coords, LAMBDA y : y > MiddleLowY /\ y < MiddleHighY))

(* lines 1329-1330 and 1388-1403 *)
ZoneAnalysis(df) ==
    LET x_coords == DropNA(Column(df, "x"))
        y_coords == DropNA(Column(df, "y"))
        total == Len(x_coords)
    IN  [left_side |-> LeftSide(x_coords),
         right_side |-> RightSide(x_coords),
         total |-> total,
         left_pct |-> Percent(LeftSide(x_coords), total),
         deep_pct |-> Percent(Deep(x_coords), total),
         middle_pct |-> Percent(Middle(y_coords), total)]

(* lines 1323-1405 *)
ShowHeatMap ==
    /\ pc = "view"
    /\ IF {"x", "y"} \subseteq tracking_cols
       THEN /\ zone_stats' = ZoneAnalysis(display_tracking)
            /\ ui' = {"heat map", "Zone Analysis"}
       ELSE /\ zone_stats' = zone_stats
            /\ ui' = {"Position data (x, y) not available for heat map"}
    /\ pc' = "heat_map"
    /\ UNCHANGED <<tracking_source, tracking_cols, player_tracking, stats,
                   display_tracking>>

InitHeat ==
    /\ tracking_cols \in HeatMapColumns
    /\ display_tracking \in
          {[i \in DOMAIN df |->
               [df[i] EXCEPT !.y = IF "y" \in tracking_cols THEN @ ELSE NA]] :
              df \in SeqsUpTo(XYFrames, MaxHeatFrames) \ {<<>>}}
    /\ zone_stats = <<>>
    /\ tracking_source = <<>>
    /\ player_tracking = <<>>
    /\ stats = <<>>
    /\ pc = "view"
    /\ ui = {}
    /\ FilterIdle /\ CacheIdle /\ LoadIdle /\ TableIdle /\ LaterIdle

heatRest == <<filterVars, cacheVars, loadVars, tableVars, laterVars>>

NextHeat == ShowHeatMap /\ UNCHANGED heatRest

SpecHeat == InitHeat /\ [][NextHeat]_vars

----------------------------------------------------------------------------
(* Play selection and the three views of the tracking tab, lines 1248-1590 *)

MaxViewFrames == 3

ViewFrame(ts, x, y, s, play_id) ==
    [x |-> x, y |-> y] @@ Frame(ts, s, NA, NA, NA, play_id, NA)

(* Frames of two plays with distinct x, with equal timestamps, without a   *)
(* timestamp, without coordinates and without a play                       *)
ViewFrames ==
    { ViewFrame(1, 100, 250, 4, 1),
      ViewFrame(2, 200, 250, 5, 2),
      ViewFrame(3, 300, 250, 8, 2),
      ViewFrame(NA, 500, 250, NA, 1),
      ViewFrame(2, NA, NA, 5, NA) }

ViewColumns ==
    { {"ts", "x", "y", "s", "play_id"},
      {"x", "y", "s", "play_id"},
      {"ts", "x", "y"},
      {"ts", "s", "play_id"} }

KeepColumns(frame, cols) ==
    [c \in DOMAIN frame |-> IF c \in cols THEN frame[c] ELSE NA]

ViewModes == {"Path View", "Heat Map", "Frame-by-Frame"}

NoColumn == ""

(* lines 1251-1255 *)
PlayCol(cols) ==
    IF "play_id" \in cols THEN "play_id"
    ELSE IF "playId" \in cols THEN "playId"
    ELSE NoColumn

(* line 1257 *)
PlaySelectionShown(df, cols) ==
    PlayCol(cols) # NoColumn /\ NUnique(Column(df, PlayCol(cols))) > 1

(* player_tracking[play_col].unique(), line 1258: a missing play is one   *)
(* of the values                                                           *)
UniquePlays(df, cols) == Range(Column(df, PlayCol(cols)))

(* lines 1269-1279; a comparison with a missing value is false *)
PlayFrames(df, cols, option, play) ==
    IF PlaySelectionShown(df, cols) /\ option = "Individual Play"
    THEN SelectSeq(df, LAMBDA f : play # NA /\ f[PlayCol(cols)] = play)
    ELSE df

(* lines 1294-1296 *)
SortedForDisplay(df, cols) ==
    IF "ts" \in cols THEN SortValuesTs(df) ELSE {df}

(* yards per second times 2.045, lines 1453-1455; speed_val counts        *)
(* 1/scale yards per second                                                *)
FrameSpeedMph(speed_val, scale) ==
    IF speed_val # NA THEN <<speed_val * MphNum, MphDen * scale>>
    ELSE <<0, 1>>

FastMph == 15

MediumMph == 10

(* line 1515 *)
SpeedColor_AtLeast(speed_mph) ==
    IF speed_mph[1] >= FastMph * speed_mph[2] THEN "red"
    ELSE IF speed_mph[1] >= MediumMph * speed_mph[2] THEN "yellow"
    ELSE "lime"

SpeedColor(speed_mph) ==
    IF speed_mph[1] > FastMph * speed_mph[2] THEN "red"
    ELSE IF speed_mph[1] > MediumMph * speed_mph[2] THEN "yellow"
    ELSE "lime"

HasPosition(frame) == frame.x # NA /\ frame.y # NA

(* add_player_path_to_field, lines 1094-1167: the path in timestamp order *)
(* with the Start and End markers on its first and last frame              *)
add_player_path_to_field(df, cols) ==
    IF Len(df) = 0 \/ "x" \notin cols \/ "y" \notin cols
    THEN {[mode |-> "Path View", path |-> <<>>, markers |-> <<>>]}
    ELSE {[mode |-> "Path View", path |-> sorted,
           markers |-> <<sorted[1], sorted[Len(sorted)]>>] :
              sorted \in SortedForDisplay(df, cols)}

(* lines 1465-1474: display_tracking.iloc[:current_frame + 1] *)
PathHistory_ExcludesCurrent(df, cols, i) ==
    IF i > 0 /\ {"x", "y"} \subseteq cols THEN SubSeq(df, 1, i) ELSE <<>>

PathHistory(df, cols, i) ==
    IF i > 0 /\ {"x", "y"} \subseteq cols THEN SubSeq(df, 1, i + 1) ELSE <<>>

(* lines 1477-1487: display_tracking.iloc[current_frame:] *)
FuturePath(df, cols, i) ==
    IF i < Len(df) - 1 /\ {"x", "y"} \subseteq cols
    THEN SubSeq(df, i + 1, Len(df))
    ELSE <<>>

(* lines 1453-1454 and 1493-1524: the marker of the current frame, present *)
(* when the frame has a position; scale is the number of speed units in    *)
(* one yard per second                                                     *)
CurrentMarker(current_data, cols, scale) ==
    LET speed_val == IF "s" \in cols THEN current_data.s ELSE 0
        speed_mph == FrameSpeedMph(speed_val, scale)
    IN  IF HasPosition(current_data) THEN <<SpeedColor(speed_mph)>> ELSE <<>>

(* lines 1412-1558, for a table with at least one frame; current_frame    *)
(* counts from 0                                                           *)
FrameByFrame(df, cols, i) ==
    LET current_data == df[i + 1]
    IN  [mode |-> "Frame-by-Frame",
         current |-> current_data,
         history |-> PathHistory(df, cols, i),
         future |-> FuturePath(df, cols, i),
         marker |-> CurrentMarker(current_data, cols, 1),
         start |-> IF HasPosition(df[1]) THEN <<df[1]>> ELSE <<>>]

NoFramesWarning == "No frames available for this play"

NoPositionWarning == "Position data (x, y) not available for heat map"

(* lines 1298-1590: what the chosen view mode draws for the displayed      *)
(* frames                                                                  *)
ModeOut(shown, cols, mode, i) ==
    CASE mode = "Path View" ->
            {[field_fig |-> fig, zone_stats |-> <<>>, ui |-> {"field"}] :
                fig \in add_player_path_to_field(shown, cols)}
      [] mode = "Heat Map" ->
            IF {"x", "y"} \subseteq cols
            THEN {[field_fig |-> [mode |-> "Heat Map"],
                   zone_stats |-> ZoneAnalysis(shown),
                   ui |-> {"field", "Zone Analysis"}]}
            ELSE {[field_fig |-> [mode |-> "Heat Map"],
                   zone_stats |-> <<>>,
                   ui |-> {NoPositionWarning}]}
      [] mode = "Frame-by-Frame" ->
            IF Len(shown) > 0
            THEN {[field_fig |-> FrameByFrame(shown, cols, i),
                   zone_stats |-> <<>>,
                   ui |-> {"field", "Frame slider"}]}
            ELSE {[field_fig |-> [mode |-> "Frame-by-Frame"],
                   zone_stats |-> <<>>,
                   ui |-> {NoFramesWarning}]}

(* lines 1253-1281 and 1419-1426: the values the play widgets and the *)
(* frame slider can have for the loaded frames                        *)
WidgetsValid(pt, cols, option, play, mode, i, shown) ==
    /\ option = "Individual Play" =>
          /\ PlaySelectionShown(pt, cols)
          /\ play \in UniquePlays(pt, cols)
    /\ option = "All Plays Combined" => play = NA
    /\ IF mode = "Frame-by-Frame" /\ Len(shown) > 0
       THEN i <= Len(shown) - 1 ELSE i = 0

(* lines 1248-1590: the widgets below the metrics and the view they draw  *)
ShowView ==
    /\ pc = "stats"
    /\ \E option \in {"All Plays Combined", "Individual Play"} :
       \E play \in Range(Column(player_tracking, "play_id")) \cup {NA} :
       \E mode \in ViewModes :
       \E shown \in SortedForDisplay(
                       PlayFrames(player_tracking, tracking_cols, option, play),
                       tracking_cols) :
       \E i \in 0..MaxViewFrames :
          /\ WidgetsValid(player_tracking, tracking_cols, option, play,
                          mode, i, shown)
          /\ \E out \in ModeOut(shown, tracking_cols, mode, i) :
                /\ field_fig' = out.field_fig
                /\ zone_stats' = out.zone_stats
                /\ ui' = out.ui
          /\ play_view_option' = option
          /\ play_select' = play
          /\ view_mode' = mode
          /\ current_frame' = i
          /\ display_tracking' = shown
    /\ pc' = "view"
    /\ UNCHANGED <<tracking_source, tracking_cols, player_tracking, stats>>

InitFrames ==
    /\ tracking_cols \in ViewColumns
    /\ tracking_source \in
          {[i \in DOMAIN src |-> KeepColumns(src[i], tracking_cols)] :
              src \in SeqsUpTo(ViewFrames, MaxViewFrames)}
    /\ player_tracking = <<>>
    /\ stats = EmptyDict
    /\ pc = "select"
    /\ ui = {}
    /\ FilterIdle /\ CacheIdle /\ LoadIdle /\ TableIdle /\ HeatIdle
    /\ LaterIdle

framesRest ==
    <<filterVars, cacheVars, loadVars, tableVars, compareVars, profileVars>>

NextFrames ==
    \/ LoadPlayerTracking /\ UNCHANGED <<framesRest, ui, heatVars, viewVars>>
    \/ ShowNoTrackingData /\ UNCHANGED <<framesRest, heatVars, viewVars>>
    \/ CalculateTrackingStats
          /\ UNCHANGED <<framesRest, ui, heatVars, viewVars>>
    \/ ShowView /\ UNCHANGED framesRest

SpecFrames == InitFrames /\ [][NextFrames]_vars

(* The marker colour at the tier boundaries.  Speeds are counted in units  *)
(* of 1/409 yard per second, so that 15 mph (3000 units) and 10 mph (2000  *)
(* units) are speeds a frame can have.                                     *)
MaxMarkerFrames == 2

SpeedScale == 409

MarkerSpeeds == {0, 1999, 2000, 2001, 2999, 3000, 3001, 4500, NA}

MarkerFrames ==
    {ViewFrame(NA, 500, 250, s, NA) : s \in MarkerSpeeds}
       \cup {ViewFrame(NA, NA, 250, 3001, NA)}

MarkerColumns == {{"x", "y", "s"}, {"x", "y"}}

(* lines 1412-1524, the slider and the marker of the selected frame *)
ShowMarker ==
    /\ pc = "view"
    /\ \E i \in 0..(Len(display_tracking) - 1) :
          /\ current_frame' = i
          /\ field_fig' =
                [mode |-> "Frame-by-Frame",
                 current |-> display_tracking[i + 1],
                 marker |-> CurrentMarker(display_tracking[i + 1],
                                          tracking_cols, SpeedScale)]
    /\ view_mode' = "Frame-by-Frame"
    /\ pc' = "marker"
    /\ ui' = {"field", "Frame slider"}
    /\ UNCHANGED <<tracking_source, tracking_cols, player_tracking, stats,
                   heatVars, play_view_option, play_select>>

InitMarker ==
    /\ tracking_cols \in MarkerColumns
    /\ display_tracking \in
          {[i \in DOMAIN df |-> KeepColumns(df[i], tracking_cols)] :
              df \in SeqsUpTo(MarkerFrames, MaxMarkerFrames) \ {<<>>}}
    /\ zone_stats = <<>>
    /\ tracking_source = <<>>
    /\ player_tracking = <<>>
    /\ stats = <<>>
    /\ pc = "view"
    /\ ui = {}
    /\ FilterIdle /\ CacheIdle /\ LoadIdle /\ TableIdle /\ LaterIdle

NextMarker == ShowMarker /\ UNCHANGED framesRest

SpecMarker == InitMarker /\ [][NextMarker]_vars

----------------------------------------------------------------------------
(* Player selection in the profile, compare and tracking tabs, lines       *)
(* 654-670, 742-765 and 1174-1205, and the radar chart, lines 137-148.     *)
(* filtered_df is here the sequence of rows in the order of the table.     *)

MaxSelectRows == 3

SelectRow(id, pos, name, gsis, ath, col, nfl) ==
    [player_id |-> id, position |-> pos, player_display_name |-> name,
     gsis_player_id |-> gsis, athletic_potential_score |-> ath,
     college_production_score |-> col, nfl_production_score |-> nfl]

(* Two rows share a display name; scores are present, missing and zero;    *)
(* one row has no gsis_player_id.                                          *)
SelectRows ==
    { SelectRow(1, "CB", "A. Smith", 11, 80, 70, 60),
      SelectRow(2, "SAF", "A. Smith", 12, 50, NA, 40),
      SelectRow(3, "CB", "B. Jones", NA, NA, 0, 90),
      SelectRow(4, "SAF", "C. Brown", 14, 30, 20, NA) }

SelectTables ==
    {df \in SeqsUpTo(SelectRows, MaxSelectRows) :
        \A i, j \in DOMAIN df : i # j => df[i] # df[j]}

Separator == " - "

(* f"{row['position']} - {row['player_display_name']}", line 659 *)
PlayerOption(row) == row.position \o Separator \o row.player_display_name

(* selected.split(" - ", 1)[1], line 669: what follows the first " - " *)
SplitName(option) ==
    LET at == {k \in 1..(Len(option) - Len(Separator) + 1) :
                  SubSeq(option, k, k + Len(Separator) - 1) = Separator}
    IN  SubSeq(option, SetMin(at) + Len(Separator), Len(option))

PlayerOptions(df) == {PlayerOption(df[i]) : i \in DOMAIN df}

(* lines 1174-1178: only the rows with a gsis_player_id are offered *)
TrackingPlayerOptions(df) ==
    {PlayerOption(df[i]) : i \in {k \in DOMAIN df : df[k].gsis_player_id # NA}}

(* filtered_df[filtered_df['player_display_name'] == player_name].iloc[0] *)
RowByName(df, player_name) ==
    SelectSeq(df, LAMBDA r : r.player_display_name = player_name)[1]

(* player_data.get(key, 0) or 0, lines 144-146: 0 for a score of 0; a     *)
(* missing score of a table row is NaN, which is true, and stays NaN      *)
ScoreOrZero(score) == IF score = 0 THEN 0 ELSE score

(* create_radar_chart, lines 137-148: r of the player trace *)
create_radar_chart(row) ==
    LET values == <<ScoreOrZero(row.athletic_potential_score),
                    ScoreOrZero(row.college_production_score),
                    ScoreOrZero(row.nfl_production_score)>>
    IN  Append(values, values[1])

SelectPrompt == "Select a player from the dropdown to view their profile"

ComparePrompt == "Select at least 2 players to compare"

TrackingPrompt == "Select a player to view their movement tracking data"

NoTrackingPlayers == "No players available for tracking visualization"

PlayerIdNotFound == "Player ID not found. Cannot load tracking data."

MaxSelections == 5

(* tab2, lines 654-712 *)
SelectProfile ==
    /\ pc = "tabs"
    /\ \E option \in PlayerOptions(filtered_df) \cup {Placeholder} :
          /\ selected_player_display' = option
          /\ IF option = Placeholder
             THEN /\ player_data' = <<>>
                  /\ radar_values' = <<>>
                  /\ ui' = {SelectPrompt}
             ELSE /\ player_data' = RowByName(filtered_df, SplitName(option))
                  /\ radar_values' = create_radar_chart(player_data')
                  /\ ui' = {"profile", "radar chart"}
    /\ UNCHANGED <<selected_tracking_player, player_info, gsis_id,
                   compareVars>>

(* tab3, lines 742-765 *)
SelectCompare ==
    /\ pc = "tabs"
    /\ \E selected_players \in SUBSET PlayerOptions(filtered_df) :
          /\ Cardinality(selected_players) <= MaxSelections
          /\ compare_select' = selected_players
          /\ IF Cardinality(selected_players) < 2
             THEN /\ compare_df' = <<>>
                  /\ ui' = {ComparePrompt}
             ELSE /\ compare_df' =
                        SelectSeq(filtered_df, LAMBDA r :
                           r.player_display_name \in
                              {SplitName(o) : o \in selected_players})
                  /\ ui' = {"comparison table", "overlay radar"}
    /\ UNCHANGED <<comparison_row, cell_styles, profileVars, gsis_id>>

(* tab5, lines 1174-1205 *)
SelectTrackingPlayer ==
    /\ pc = "tabs"
    /\ TrackingPlayerOptions(filtered_df) # {}
    /\ \E option \in TrackingPlayerOptions(filtered_df) \cup {Placeholder} :
          /\ selected_tracking_player' = option
          /\ IF option = Placeholder
             THEN /\ player_info' = <<>>
                  /\ gsis_id' = NA
                  /\ ui' = {TrackingPrompt, "empty field"}
             ELSE /\ player_info' = RowByName(filtered_df, SplitName(option))
                  /\ gsis_id' = player_info'.gsis_player_id
                  /\ ui' = IF gsis_id' = NA THEN {PlayerIdNotFound}
                           ELSE {"tracking"}
    /\ UNCHANGED <<player_data, radar_values, selected_player_display,
                   compareVars>>

(* tab5, lines 1180-1181 *)
NoTrackingOptions ==
    /\ pc = "tabs"
    /\ TrackingPlayerOptions(filtered_df) = {}
    /\ ui' = {NoTrackingPlayers}
    /\ UNCHANGED <<profileVars, compareVars, gsis_id>>

InitSelect ==
    /\ rankings_df = {}
    /\ position_filter = "All"
    /\ selected_categories = {}
    /\ year_range = NoSlider
    /\ ras_range = <<0, 100>>
    /\ filtered_df \in SelectTables
    /\ pc = "tabs"
    /\ ui = {}
    /\ tracking_source = <<>>
    /\ tracking_cols = {}
    /\ player_tracking = <<>>
    /\ stats = EmptyDict
    /\ CacheIdle /\ LoadIdle /\ TableIdle /\ HeatIdle /\ LaterIdle

selectRest ==
    <<filterVars, tracking_source, tracking_cols, player_tracking, stats, pc,
      now, tracking_cache, fetch_times, source_up, served, loadVars,
      tableVars, heatVars, viewVars>>

NextSelect ==
    \/ SelectProfile /\ UNCHANGED selectRest
    \/ SelectCompare /\ UNCHANGED selectRest
    \/ SelectTrackingPlayer /\ UNCHANGED selectRest
    \/ NoTrackingOptions /\ UNCHANGED selectRest

SpecSelect == InitSelect /\ [][NextSelect]_vars

----------------------------------------------------------------------------
(* style_comparison_table, lines 422-466: highlight_cells applied to one   *)
(* row of the comparison table.  A row is the metric name followed by one  *)
(* cell per compared player; a parsed number is an exact fraction.         *)

MaxCells == 3

(* metrics_config, lines 787-818: higher_better per metric; "Category" has *)
(* no entry                                                                *)
metrics_config ==
    [metric \in {"RAS", "Athletic Score", "College Score", "NFL Score",
                 "Composite Score"} |-> TRUE]
       @@ [metric \in {"Athletic Rank", "College Rank", "NFL Rank",
                       "Composite Rank"} |-> FALSE]

ComparisonMetrics == {"RAS", "Athletic Rank", "Category"}

ComparisonCells ==
    {"N/A", EmDash, "", NaNText, "abc", "85.0%", " 7.5 ", "#3", "90.0"}

BestStyle == "background-color: #28a745; color: white; font-weight: bold"

NearBestStyle == "background-color: #d4edda; color: #155724"

NoStyle == ""

ParseError == "ValueError"

RECURSIVE RemoveChar(_, _)
(* str.replace(c, '') *)
RemoveChar(text, c) ==
    IF text = "" THEN ""
    ELSE IF SubSeq(text, 1, 1) = c THEN RemoveChar(SubSeq(text, 2, Len(text)), c)
    ELSE SubSeq(text, 1, 1) \o RemoveChar(SubSeq(text, 2, Len(text)), c)

RECURSIVE Strip(_)
(* str.strip() *)
Strip(text) ==
    IF text = "" THEN ""
    ELSE IF SubSeq(text, 1, 1) = " " THEN Strip(SubSeq(text, 2, Len(text)))
    ELSE IF SubSeq(text, Len(text), Len(text)) = " "
         THEN Strip(SubSeq(text, 1, Len(text) - 1))
    ELSE text

Digits == <<"0", "1", "2", "3", "4", "5", "6", "7", "8", "9">>

IsDigits(text) ==
    \A k \in 1..Len(text) : \E d \in 1..10 : SubSeq(text, k, k) = Digits[d]

RECURSIVE DigitsValue(_)
DigitsValue(text) ==
    IF text = "" THEN 0
    ELSE 10 * DigitsValue(SubSeq(text, 1, Len(text) - 1))
         + (CHOOSE d \in 0..9 :
               Digits[d + 1] = SubSeq(text, Len(text), Len(text)))

RECURSIVE TenTo(_)
TenTo(n) == IF n = 0 THEN 1 ELSE 10 * TenTo(n - 1)

(* float(text) for a decimal literal: an optional sign, digits and at most *)
(* one point with a digit on one side at least; anything else raises       *)
ParseFloat(text) ==
    LET negative == text # "" /\ SubSeq(text, 1, 1) = "-"
        signed == text # "" /\ SubSeq(text, 1, 1) \in {"-", "+"}
        body == IF signed THEN SubSeq(text, 2, Len(text)) ELSE text
        points == {k \in 1..Len(body) : SubSeq(body, k, k) = "."}
        whole == IF points = {} THEN body
                 ELSE SubSeq(body, 1, SetMin(points) - 1)
        fraction == IF points = {} THEN ""
                    ELSE SubSeq(body, SetMin(points) + 1, Len(body))
        magnitude == DigitsValue(whole \o fraction)
    IN  IF /\ Cardinality(points) <= 1
           /\ IsDigits(whole) /\ IsDigits(fraction)
           /\ whole \o fraction # ""
        THEN Return(<<IF negative THEN -magnitude ELSE magnitude,
                      TenTo(Len(fraction))>>)
        ELSE Raise(ParseError)

FloatLess(a, b) == a[1] * b[2] < b[1] * a[2]

FloatEq(a, b) == a[1] * b[2] = b[1] * a[2]

FloatSub(a, b) == <<a[1] * b[2] - b[1] * a[2], a[2] * b[2]>>

FloatMax(values) ==
    values[CHOOSE i \in DOMAIN values :
              \A j \in DOMAIN values : ~FloatLess(values[i], values[j])]

FloatMin(values) ==
    values[CHOOSE i \in DOMAIN values :
              \A j \in DOMAIN values : ~FloatLess(values[j], values[i])]

(* lines 440-446: the outcome of the try block for one cell; a cell that  *)
(* is skipped or whose float() raises contributes nothing                 *)
CellValue_KeepsHash(val) ==
    IF val # NaNText /\ val \notin {"N/A", EmDash, ""}
    THEN ParseFloat(Strip(RemoveChar(val, "%")))
    ELSE Raise("skipped")

CellValue(val) ==
    IF val # NaNText /\ val \notin {"N/A", EmDash, ""}
    THEN ParseFloat(Strip(RemoveChar(RemoveChar(val, "%"), "#")))
    ELSE Raise("skipped")

(* ratio > 0.7 for ratio = num / den with den > 0, lines 455-462 *)
RatioOverSeventy(num, den) ==
    10 * num[1] * den[2] > 7 * den[1] * num[2]

(* highlight_cells, lines 425-464 *)
highlight_cells(row) ==
    LET metric == row[1]
        indices == SelectSeq([k \in 1..Len(row) |-> k],
                             LAMBDA idx : idx > 1 /\ ~Raised(CellValue(row[idx])))
        values == [k \in DOMAIN indices |-> CellValue(row[indices[k]])[2]]
        styles == [idx \in 1..Len(row) |-> NoStyle]
    IN  IF metric \notin DOMAIN metrics_config THEN styles
        ELSE IF Len(values) < 2 THEN styles
        ELSE
          LET higher_better == metrics_config[metric]
              best_val == IF higher_better THEN FloatMax(values)
                          ELSE FloatMin(values)
              StyleOf(val) ==
                 IF FloatEq(val, best_val) THEN BestStyle
                 ELSE IF higher_better /\ ~FloatEq(best_val, FloatMin(values))
                 THEN IF RatioOverSeventy(FloatSub(val, FloatMin(values)),
                                          FloatSub(best_val, FloatMin(values)))
                      THEN NearBestStyle ELSE NoStyle
                 ELSE IF ~higher_better /\ ~FloatEq(best_val, FloatMax(values))
                 THEN IF RatioOverSeventy(FloatSub(FloatMax(values), val),
                                          FloatSub(FloatMax(values), best_val))
                      THEN NearBestStyle ELSE NoStyle
                 ELSE NoStyle
          IN  [idx \in 1..Len(row) |->
                  IF \E k \in DOMAIN indices : indices[k] = idx
                  THEN StyleOf(CellValue(row[idx])[2])
                  ELSE NoStyle]

(* df.style.apply(highlight_cells, axis=1), line 466, for one row *)
StyleComparisonRow ==
    /\ pc = "style"
    /\ cell_styles' = highlight_cells(comparison_row)
    /\ pc' = "styled"
    /\ UNCHANGED <<compare_select, compare_df, comparison_row>>

InitCompare ==
    /\ comparison_row \in
          {<<metric>> \o cells :
              metric \in ComparisonMetrics,
              cells \in SeqsUpTo(ComparisonCells, MaxCells)}
    /\ cell_styles = <<>>
    /\ compare_select = {}
    /\ compare_df = <<>>
    /\ pc = "style"
    /\ ui = {}
    /\ tracking_source = <<>>
    /\ tracking_cols = {}
    /\ player_tracking = <<>>
    /\ stats = <<>>
    /\ FilterIdle /\ CacheIdle /\ LoadIdle /\ TableIdle /\ HeatIdle
    /\ ViewIdle /\ ProfileIdle

compareRest ==
    <<filterVars, tracking_source, tracking_cols, player_tracking, stats,
      cacheVars, loadVars, ui, tableVars, heatVars, viewVars, profileVars>>

NextCompare == StyleComparisonRow /\ UNCHANGED compareRest

SpecCompare == InitCompare /\ [][NextCompare]_vars

----------------------------------------------------------------------------
(* One run of the script over the five tabs, lines 582-1690, for the       *)
(* values the selection widgets have.  A tab puts its name on the page     *)
(* when its block has run to the end; an exception no handler catches ends *)
(* the run, and the tabs after it stay empty.                              *)

MaxPromptRows == 2

RankedRow(id) == CHOOSE r \in RankedProspects : r.id = id

PromptRow(id, pos, name, gsis, ath, col, nfl) ==
    RankedRow(id) @@ SelectRow(id, pos, name, gsis, ath, col, nfl)

(* Players with frames of several plays, with no frame at all, without a   *)
(* gsis_player_id, and one whose draft round has no pick.                  *)
PromptRows ==
    { PromptRow(1, "CB", "A. Smith", 1, 80, 70, 60),
      PromptRow(2, "SAF", "B. Jones", 2, 50, NA, NA),
      PromptRow(7, "SAF", "D. White", NA, NA, 20, 40),
      PromptRow(8, "CB", "C. Brown", 3, 30, 20, NA) }

PromptTables ==
    {df \in SeqsUpTo(PromptRows, MaxPromptRows) :
        \A i, j \in DOMAIN df : i # j => df[i] # df[j]}

TrackedFrame(g, ts, x, y, s, play_id) ==
    [gsis_id |-> g] @@ ViewFrame(ts, x, y, s, play_id)

(* game_data_24_secondary_all: player 1 has frames of two plays and one    *)
(* frame without a play, player 3 has one frame, player 2 has none         *)
PromptTracking ==
    <<TrackedFrame(1, 1, 100, 250, 4, 1), TrackedFrame(1, 2, 200, 250, 5, 2),
      TrackedFrame(3, 1, 700, 100, 8, 1), TrackedFrame(1, 3, 300, 250, NA, NA)>>

PromptColumns == {"gsis_id", "ts", "x", "y", "s", "play_id"}

ScatterPrompt == "Not enough data to display scatter plot"

None == "None"

(* create_scatter_plot, lines 200-205: None when no row has both values *)
create_scatter_plot(df) ==
    LET plot_df == SelectSeq(df, LAMBDA r :
                       r.RAS # NA /\ r.nfl_production_score # NA)
    IN  IF Len(plot_df) = 0 THEN None ELSE plot_df

NotRendered ==
    [player_data |-> <<>>, radar_values |-> <<>>, draft_info |-> <<>>,
     compare_df |-> <<>>, sorted_df |-> <<>>, great_table |-> <<>>,
     player_info |-> <<>>, gsis_id |-> NA, player_tracking |-> <<>>,
     stats |-> EmptyDict, display_tracking |-> <<>>, zone_stats |-> <<>>,
     field_fig |-> <<>>]

(* tab1, lines 582-647 *)
TabOne(df) ==
    IF DashboardRaises(Range(df))
    THEN [raised |-> TRUE, ui |-> {UncaughtException}]
    ELSE [raised |-> FALSE,
          ui |-> {"tab 1"} \cup (IF create_scatter_plot(df) = None
                                 THEN {ScatterPrompt} ELSE {"scatter"})]

(* tab2, lines 654-712 *)
TabTwo(df, option) ==
    IF option = Placeholder
    THEN [raised |-> FALSE, ui |-> {SelectPrompt, "tab 2"},
          player_data |-> <<>>, draft_info |-> <<>>, radar_values |-> <<>>]
    ELSE LET row == RowByName(df, SplitName(option))
             info == format_draft_pick(row)
         IN  IF Raised(info)
             THEN [raised |-> TRUE, ui |-> {UncaughtException},
                   player_data |-> row, draft_info |-> info,
                   radar_values |-> <<>>]
             ELSE [raised |-> FALSE, ui |-> {"profile", "radar chart", "tab 2"},
                   player_data |-> row, draft_info |-> info,
                   radar_values |-> create_radar_chart(row)]

(* tab3, lines 742-855 *)
TabThree_PromptBelowOne(df, selected_players) ==
    IF Cardinality(selected_players) < 1
    THEN [raised |-> FALSE, ui |-> {ComparePrompt, "tab 3"},
          compare_df |-> <<>>]
    ELSE [raised |-> FALSE,
          ui |-> {"comparison table", "overlay radar", "tab 3"},
          compare_df |->
             SelectSeq(df, LAMBDA r :
                r.player_display_name \in
                   {SplitName(o) : o \in selected_players})]

TabThree(df, selected_players) ==
    IF Cardinality(selected_players) < 2
    THEN [raised |-> FALSE, ui |-> {ComparePrompt, "tab 3"},
          compare_df |-> <<>>]
    ELSE [raised |-> FALSE,
          ui |-> {"comparison table", "overlay radar", "tab 3"},
          compare_df |->
             SelectSeq(df, LAMBDA r :
                r.player_display_name \in
                   {SplitName(o) : o \in selected_players})]

(* tab4, lines 860-921, with Sort By at "Composite Rank"; an exception of *)
(* create_great_table is caught there                                      *)
TabFour(df) ==
    {[raised |-> FALSE, ui |-> {"tab 4"}, sorted_df |-> sorted,
      great_table |-> create_great_table(sorted)] :
        sorted \in SortValues(Range(df), "composite_rank", TRUE)}

(* tab5, lines 1174-1690, below the player selection *)
TrackingOut(id, option, play, mode) ==
    LET loaded == LoadPlayerTrackingBody(PromptTracking, PromptColumns,
                                         "ok", id)
    IN  UNION {
          IF Len(result.value) = 0
          THEN {[raised |-> FALSE,
                 ui |-> {"No tracking data found", "empty field", "tab 5"},
                 player_tracking |-> result.value, stats |-> EmptyDict,
                 display_tracking |-> <<>>, zone_stats |-> <<>>,
                 field_fig |-> <<>>]}
          ELSE UNION {
                 {[raised |-> FALSE,
                   ui |-> out.ui \cup {"Performance Metrics", "tab 5"},
                   player_tracking |-> result.value,
                   stats |-> calculate_tracking_stats(result.value,
                                                      PromptColumns),
                   display_tracking |-> shown,
                   zone_stats |-> out.zone_stats,
                   field_fig |-> out.field_fig] :
                      out \in ModeOut(shown, PromptColumns, mode, 0)} :
                 shown \in {d \in SortedForDisplay(
                                     PlayFrames(result.value, PromptColumns,
                                                option, play),
                                     PromptColumns) :
                               WidgetsValid(result.value, PromptColumns,
                                            option, play, mode, 0, d)}}
          : result \in loaded}

(* tab5, lines 1174-1207 *)
TabFive(df, option, view_option, play, mode) ==
    LET idle == [player_info |-> <<>>, gsis_id |-> NA,
                 player_tracking |-> <<>>, stats |-> EmptyDict,
                 display_tracking |-> <<>>, zone_stats |-> <<>>,
                 field_fig |-> <<>>]
    IN  IF TrackingPlayerOptions(df) = {}
        THEN {[raised |-> FALSE, ui |-> {NoTrackingPlayers, "tab 5"}] @@ idle}
        ELSE IF option = Placeholder
        THEN {[raised |-> FALSE,
               ui |-> {TrackingPrompt, "empty field", "tab 5"}] @@ idle}
        ELSE LET info == RowByName(df, SplitName(option))
             IN  IF info.gsis_player_id = NA
                 THEN {[raised |-> FALSE, ui |-> {PlayerIdNotFound, "tab 5"},
                        player_info |-> info] @@ idle}
                 ELSE {[player_info |-> info,
                        gsis_id |-> info.gsis_player_id] @@ out :
                          out \in TrackingOut(info.gsis_player_id,
                                              view_option, play, mode)}

(* the five tab blocks in the order of the script *)
ScriptRuns(df, profile, compared, tracked, view_option, play, mode) ==
    LET one == TabOne(df)
        two == TabTwo(df, profile)
        three == TabThree(df, compared)
    IN  IF one.raised THEN {one @@ NotRendered}
        ELSE IF two.raised
        THEN {[two EXCEPT !.ui = @ \cup one.ui] @@ NotRendered}
        ELSE {[raised |-> FALSE,
               ui |-> one.ui \cup two.ui \cup three.ui \cup four.ui
                         \cup five.ui]
                 @@ two @@ three @@ four @@ five :
                    four \in TabFour(df),
                    five \in TabFive(df, tracked, view_option, play, mode)}

(* a run of the script with some choice in every selection widget *)
RunScript ==
    /\ pc = "start"
    /\ \E profile \in PlayerOptions(filtered_df) \cup {Placeholder} :
       \E compared \in SUBSET PlayerOptions(filtered_df) :
       \E tracked \in TrackingPlayerOptions(filtered_df) \cup {Placeholder} :
       \E view_option \in {"All Plays Combined", "Individual Play"} :
       \E play \in Range(Column(PromptTracking, "play_id")) \cup {NA} :
       \E mode \in ViewModes :
       \E run \in ScriptRuns(filtered_df, profile, compared, tracked,
                             view_option, play, mode) :
          /\ Cardinality(compared) <= MaxSelections
          /\ (tracked = Placeholder \/ run.player_tracking = <<>>) =>
                /\ view_option = "All Plays Combined"
                /\ play = NA
                /\ mode = "Path View"
          /\ selected_player_display' = profile
          /\ compare_select' = compared
          /\ selected_tracking_player' = tracked
          /\ play_view_option' = view_option
          /\ play_select' = play
          /\ view_mode' = mode
          /\ player_data' = run.player_data
          /\ radar_values' = run.radar_values
          /\ draft_info' = run.draft_info
          /\ compare_df' = run.compare_df
          /\ sorted_df' = run.sorted_df
          /\ great_table' = run.great_table
          /\ player_info' = run.player_info
          /\ gsis_id' = run.gsis_id
          /\ player_tracking' = run.player_tracking
          /\ stats' = run.stats
          /\ display_tracking' = run.display_tracking
          /\ zone_stats' = run.zone_stats
          /\ field_fig' = run.field_fig
          /\ ui' = run.ui
    /\ pc' = "rendered"
    /\ UNCHANGED <<rankings_df, position_filter, selected_categories,
                   year_range, ras_range, filtered_df, tracking_source,
                   tracking_cols, now, tracking_cache, fetch_times,
                   source_up, served, loadVars, profile_select, sort_by,
                   current_frame, comparison_row, cell_styles>>

InitPrompts ==
    /\ rankings_df = {}
    /\ position_filter = "All"
    /\ selected_categories = {}
    /\ year_range = NoSlider
    /\ ras_range = <<0, 100>>
    /\ filtered_df \in PromptTables
    /\ tracking_source = PromptTracking
    /\ tracking_cols = PromptColumns
    /\ player_tracking = <<>>
    /\ stats = EmptyDict
    /\ pc = "start"
    /\ ui = {}
    /\ CacheIdle /\ LoadIdle /\ TableIdle /\ HeatIdle /\ LaterIdle

NextPrompts == RunScript

SpecPrompts == InitPrompts /\ [][NextPrompts]_vars

----------------------------------------------------------------------------
(* Filter Pipeline properties                                              *)

PassesPosition(r) == position_filter = "All" \/ r.position = position_filter

InSelectedCategories(r) == r.player_category \in selected_categories

PassesCategory(r) == selected_categories = {} \/ InSelectedCategories(r)

(* The year filter is active when the rows left by the position and        *)
(* category filters hold at least two distinct non-missing draft years.    *)
YearFilterActive ==
    \E r1, r2 \in rankings_df :
        /\ PassesPosition(r1) /\ PassesCategory(r1)
        /\ PassesPosition(r2) /\ PassesCategory(r2)
        /\ r1.draft_season # NA /\ r2.draft_season # NA
        /\ r1.draft_season # r2.draft_season

(* The selected year range; there is none while the slider is not shown. *)
InYearRange(r) ==
    \/ year_range = NoSlider
    \/ (year_range[1] <= r.draft_season /\ r.draft_season <= year_range[2])

InRasRange(r) == ras_range[1] <= r.RAS /\ r.RAS <= ras_range[2]

(* C1: with a non-empty category selection, a row whose draft_season and   *)
(* RAS are present is in filtered_df iff its position matches (or the      *)
(* position is All), its category is selected, its draft_season lies in    *)
(* the selected year range and its RAS lies in the selected RAS range;     *)
(* filtered_df is a subset of rankings_df.                                 *)
C1_ConjunctiveFilter ==
    selected_categories # {} =>
        /\ filtered_df \subseteq rankings_df
        /\ \A r \in rankings_df :
              (r.draft_season # NA /\ r.RAS # NA) =>
                  (r \in filtered_df <=>
                      /\ PassesPosition(r)
                      /\ InSelectedCategories(r)
                      /\ InYearRange(r)
                      /\ InRasRange(r))

C1_Witness ==
    /\ selected_categories # {}
    /\ position_filter # "All"
    /\ year_range # NoSlider
    /\ \E r \in filtered_df : r.draft_season # NA /\ r.RAS # NA
    /\ \E r \in rankings_df \ filtered_df :
          /\ r.draft_season # NA /\ r.RAS # NA
          /\ PassesPosition(r) /\ InSelectedCategories(r) /\ InRasRange(r)
          /\ ~InYearRange(r)

(* C2: with an empty category selection filtered_df is the result the      *)
(* pipeline gives with every available category selected.                  *)
C2_EmptySelectionIsAllAvailable ==
    selected_categories = {} =>
        filtered_df = FilterPipeline(rankings_df, position_filter,
                                     AvailableCategories(rankings_df),
                                     year_range, ras_range)

(* C3: a row with a missing RAS is in filtered_df whenever it passes the   *)
(* position, category and year filters, for every RAS range.               *)
C3_MissingRASRetained ==
    \A r \in rankings_df :
        r.RAS = NA =>
            (r \in filtered_df <=>
                /\ PassesPosition(r)
                /\ PassesCategory(r)
                /\ (YearFilterActive => r.draft_season # NA /\ InYearRange(r)))

C3_Witness ==
    /\ ras_range # <<0, 100>>
    /\ \E r \in filtered_df : r.RAS = NA
    /\ \E r \in rankings_df \ filtered_df :
          /\ r.RAS # NA /\ ~InRasRange(r)
          /\ PassesPosition(r) /\ PassesCategory(r)

(* C4: the year slider exists exactly when the year filter is active; a    *)
(* row with a missing draft_season that passes the other filters is        *)
(* excluded when the year filter is active, whatever the year range, and   *)
(* is retained when it is not; an inactive filter applies no predicate.    *)
PassesOtherFilters(r) ==
    PassesPosition(r) /\ PassesCategory(r) /\ (r.RAS = NA \/ InRasRange(r))

C4_MissingSeasonAndActiveFilter ==
    /\ (year_range # NoSlider) <=> YearFilterActive
    /\ \A r \in rankings_df :
          (r.draft_season = NA /\ PassesOtherFilters(r)) =>
              (r \in filtered_df <=> ~YearFilterActive)
    /\ ~YearFilterActive =>
          \A r \in rankings_df : PassesOtherFilters(r) => r \in filtered_df

C4_Witness ==
    /\ YearFilterActive
    /\ year_range # NoSlider
    /\ year_range[1] = year_range[2]
    /\ filtered_df # {}
    /\ \E r \in rankings_df \ filtered_df :
          r.draft_season = NA /\ PassesOtherFilters(r)

(* C5: applying the whole pipeline to filtered_df with the same filter     *)
(* specification gives filtered_df again.                                  *)
C5_Idempotent ==
    FilterPipeline(filtered_df, position_filter, selected_categories,
                   year_range, ras_range) = filtered_df

C5_Witness ==
    /\ filtered_df # {}
    /\ filtered_df # rankings_df
    /\ year_range # NoSlider
    /\ ~YearSliderShown(BeforeYearFilter(filtered_df, position_filter,
                                         selected_categories))

(* A filter specification can be entered for table df: the selection is    *)
(* made of options of the multiselect, the year range of stops of the      *)
(* slider when it is shown.                                                *)
SpecificationFits(df) ==
    /\ df # {}
    /\ selected_categories \subseteq AvailableCategories(df)
    /\ LET before == BeforeYearFilter(df, position_filter, selected_categories)
       IN  (YearSliderShown(before) /\ year_range # NoSlider) =>
               year_range \in YearSliderOptions(before)

KeptIn(r, df) ==
    r \in FilterPipeline(df, position_filter, selected_categories,
                         year_range, ras_range)

(* C6 as stated: whether a row is kept does not depend on which other rows *)
(* the table holds.                                                        *)
C6_RowIndependent ==
    \A df \in SUBSET rankings_df :
        SpecificationFits(df) =>
            \A r \in df : KeptIn(r, df) <=> r \in filtered_df

(* C6 amended: a row is kept iff it satisfies the position, category and   *)
(* RAS predicates, which read only the row, and the year predicate, which  *)
(* reads the row and whether the year filter is active; so between two     *)
(* tables in which the year filter is active alike the row is kept alike.  *)
C6_IndependentGivenYearActivity ==
    /\ \A r \in rankings_df :
          r \in filtered_df <=>
              /\ PassesPosition(r)
              /\ PassesCategory(r)
              /\ (YearFilterActive => r.draft_season # NA /\ InYearRange(r))
              /\ (r.RAS = NA \/ InRasRange(r))
    /\ \A df \in SUBSET rankings_df :
          (/\ SpecificationFits(df)
           /\ YearSliderShown(BeforeYearFilter(df, position_filter,
                                               selected_categories))
              <=> YearFilterActive) =>
              \A r \in df : KeptIn(r, df) <=> r \in filtered_df

C6_Witness ==
    /\ YearFilterActive
    /\ position_filter # "All"
    /\ \E r \in rankings_df \ filtered_df :
          /\ r.draft_season = NA
          /\ KeptIn(r, {r})
          /\ SpecificationFits({r})

----------------------------------------------------------------------------
(* Tracking statistics properties                                          *)

CircularDist(d1, d2) ==
    LET delta == IF d1 >= d2 THEN d1 - d2 ELSE d2 - d1
    IN  IF delta <= 360 - delta THEN delta ELSE 360 - delta

HasHeading(frame) == frame.dir # NA

FramesWithHeading == SelectSeq(player_tracking, HasHeading)

ConsecutiveHeadingPairs == 2..Len(FramesWithHeading)

ExpectedDirectionChanges ==
    Cardinality({i \in ConsecutiveHeadingPairs :
        CircularDist(FramesWithHeading[i - 1].dir, FramesWithHeading[i].dir) > 45})

InTimestampOrder ==
    \A i, j \in 1..Len(player_tracking) :
        i < j => player_tracking[i].ts <= player_tracking[j].ts

HeadingsAre(seq) ==
    /\ Len(FramesWithHeading) = Len(seq)
    /\ \A i \in 1..Len(seq) : FramesWithHeading[i].dir = seq[i]

DirectionChangesOf(df) ==
    StatsGet(calculate_tracking_stats(df, tracking_cols), "direction_changes")

(* C7: the frames are in timestamp order and direction_changes is the      *)
(* number of pairs of consecutive frames carrying a heading whose circular *)
(* heading distance is strictly greater than 45; for headings in 0..360    *)
(* the wrapped delta the code compares is the circular distance, which is  *)
(* symmetric, in 0..180, 0 for equal headings, 20 for (10, 350) and 180    *)
(* for (0, 180); headings [10, 60, 65] give 1.                             *)
C7_DirectionChangesCount ==
    pc = "stats" =>
        /\ "ts" \in tracking_cols => InTimestampOrder
        /\ StatsGet(stats, "direction_changes") = ExpectedDirectionChanges
        /\ "direction_changes" \in DOMAIN stats =>
               stats["direction_changes"] = ExpectedDirectionChanges
        /\ \A i \in ConsecutiveHeadingPairs :
              LET d1 == FramesWithHeading[i - 1].dir
                  d2 == FramesWithHeading[i].dir
              IN  (d1 \in 0..360 /\ d2 \in 0..360) =>
                      /\ DirChanges(<<d1, d2>>)[2] = CircularDist(d1, d2)
                      /\ DirChanges(<<d2, d1>>)[2] = DirChanges(<<d1, d2>>)[2]
                      /\ DirChanges(<<d1, d2>>)[2] \in 0..180
                      /\ d1 = d2 => DirChanges(<<d1, d2>>)[2] = 0
                      /\ (d1 = 10 /\ d2 = 350) => DirChanges(<<d1, d2>>)[2] = 20
                      /\ (d1 = 0 /\ d2 = 180) => DirChanges(<<d1, d2>>)[2] = 180
        /\ HeadingsAre(<<10, 60, 65>>) => stats["direction_changes"] = 1

C7_Witness ==
    /\ pc = "stats"
    /\ "ts" \in tracking_cols
    /\ tracking_source # player_tracking
    /\ HeadingsAre(<<10, 60, 65>>)
    /\ stats["direction_changes"] = 1

(* Adding 360 to the headings of the frames at the positions in S. *)
Relabel(df, S) ==
    [i \in 1..Len(df) |->
        IF i \in S /\ df[i].dir # NA
        THEN [df[i] EXCEPT !.dir = @ + 360]
        ELSE df[i]]

(* C8: adding 360 to the headings of any subset of the frames leaves       *)
(* direction_changes unchanged.                                            *)
C8_InvariantUnderPlus360 ==
    pc = "stats" =>
        \A S \in SUBSET (1..Len(player_tracking)) :
            DirectionChangesOf(Relabel(player_tracking, S))
                = StatsGet(stats, "direction_changes")

(* C9 as stated: for at most one frame the mapping holds 0 under the key   *)
(* direction_changes.                                                      *)
C9_ZeroUnderKey ==
    (pc = "returned" /\ Len(player_tracking) <= 1) =>
        /\ "direction_changes" \in DOMAIN stats
        /\ stats["direction_changes"] = 0

(* C9 amended: for at most one frame the mapping has no key                *)
(* direction_changes (it is empty for an empty sequence), and the value    *)
(* the callers read with stats.get('direction_changes', 0) is 0.           *)
C9_OmittedAndShownAsZero ==
    (pc = "returned" /\ Len(player_tracking) <= 1) =>
        /\ "direction_changes" \notin DOMAIN stats
        /\ StatsGet(stats, "direction_changes") = 0
        /\ Len(player_tracking) = 0 => stats = EmptyDict

C9_Witness ==
    /\ pc = "returned"
    /\ Len(player_tracking) = 1
    /\ "dir" \in tracking_cols
    /\ player_tracking[1].dir # NA
    /\ "total_frames" \in DOMAIN stats
    /\ "direction_changes" \notin DOMAIN stats

SourceColumn(key) ==
    CASE key \in {"max_speed_mph", "avg_speed_mph", "min_speed_mph"} -> "s"
      [] key \in {"max_acceleration", "avg_acceleration"} -> "a"
      [] key \in {"total_distance", "avg_distance_per_frame"} -> "dis"
      [] key = "total_time_seconds" -> "ts"
      [] key = "play_count" ->
            IF "play_id" \in tracking_cols THEN "play_id" ELSE "playId"
      [] key = "direction_changes" -> "dir"

SourcedKeys ==
    {"max_speed_mph", "avg_speed_mph", "min_speed_mph", "max_acceleration",
     "avg_acceleration", "total_distance", "avg_distance_per_frame",
     "total_time_seconds", "play_count", "direction_changes"}

HasValue(column) ==
    /\ column \in tracking_cols
    /\ \E i \in 1..Len(player_tracking) : player_tracking[i][column] # NA

(* C10: a statistic key is in the mapping only if its source column exists *)
(* and has at least one non-missing value.                                 *)
C10_KeyOnlyIfSourceHasValue ==
    pc = "returned" =>
        \A key \in SourcedKeys :
            key \in DOMAIN stats => HasValue(SourceColumn(key))

----------------------------------------------------------------------------
(* Speed statistics                                                        *)

(* fractions <<numerator, denominator>> with positive denominators *)
RatEq(a, b) == a[1] * b[2] = b[1] * a[2]

RatGeq(a, b) == a[1] * b[2] >= b[1] * a[2]

SpeedKeys == {"max_speed_mph", "avg_speed_mph", "min_speed_mph"}

(* the frames of the table that carry a speed sample *)
SampledFrames == {i \in DOMAIN player_tracking : player_tracking[i].s # NA}

RECURSIVE SumOver(_)
SumOver(I) ==
    IF I = {} THEN 0
    ELSE LET i == CHOOSE j \in I : TRUE
         IN  player_tracking[i].s + SumOver(I \ {i})

FastestSample ==
    CHOOSE v \in {player_tracking[i].s : i \in SampledFrames} :
        \A i \in SampledFrames : player_tracking[i].s <= v

SlowestSample ==
    CHOOSE v \in {player_tracking[i].s : i \in SampledFrames} :
        \A i \in SampledFrames : player_tracking[i].s >= v

SpeedStatisticsRight ==
    /\ SpeedKeys \subseteq DOMAIN stats
    /\ RatGeq(stats.max_speed_mph, stats.avg_speed_mph)
    /\ RatGeq(stats.avg_speed_mph, stats.min_speed_mph)
    /\ RatEq(stats.max_speed_mph, <<2045 * FastestSample, 1000>>)
    /\ RatEq(stats.avg_speed_mph,
             <<2045 * SumOver(SampledFrames),
               1000 * Cardinality(SampledFrames)>>)
    /\ RatEq(stats.min_speed_mph, <<2045 * SlowestSample, 1000>>)

SpeedsAre(samples) ==
    /\ "s" \in tracking_cols
    /\ Len(player_tracking) = Len(samples)
    /\ \A i \in DOMAIN samples : player_tracking[i].s = samples[i]

(* C11, as stated: for every non-empty frame sequence the three speed keys *)
(* are present, max >= avg >= min, and they are 2.045 times the maximum,   *)
(* the mean and the minimum of the non-missing speed samples.              *)
C11_SpeedKeysForEveryFrameSequence ==
    (pc = "returned" /\ Len(player_tracking) > 0) => SpeedStatisticsRight

(* C11, amended: for every frame sequence with at least one non-missing    *)
(* speed sample the three speed keys are present, max >= avg >= min, and   *)
(* they are 2.045 times the maximum, the mean and the minimum of the       *)
(* non-missing samples; speeds 5, 10, 15 give 30.675, 20.45 and 10.225.    *)
C11_SpeedStatistics ==
    /\ (pc = "returned" /\ SampledFrames # {}) => SpeedStatisticsRight
    /\ (pc = "returned" /\ SpeedsAre(<<5, 10, 15>>)) =>
          /\ RatEq(stats.max_speed_mph, <<30675, 1000>>)
          /\ RatEq(stats.avg_speed_mph, <<20450, 1000>>)
          /\ RatEq(stats.min_speed_mph, <<10225, 1000>>)

C11_Witness ==
    /\ pc = "returned"
    /\ SpeedsAre(<<5, NA, 15>>)
    /\ stats.avg_speed_mph = <<20 * MphNum, 2 * MphDen>>

----------------------------------------------------------------------------
(* Tracking data cache and load failures                                   *)

Accessed == pc \in {"loaded", "no_data", "stats"}

LatestFetch(id) == CHOOSE t \in fetch_times[id] : \A u \in fetch_times[id] : u <= t

(* C12: the tracking data of a player id are fetched on the first access,  *)
(* reused without a new fetch by every access for that id within 600       *)
(* seconds, fetched again by an access after the window, and the data      *)
(* fetched for one id are never returned for another id.                   *)
C12_CachedPerPlayerFor600s ==
    /\ \A id \in DOMAIN fetch_times : \A t1, t2 \in fetch_times[id] :
          t1 < t2 => t2 - t1 >= 600
    /\ Accessed =>
          /\ fetch_times[gsis_id] # {}
          /\ served.written = LatestFetch(gsis_id)
          /\ now - served.written <= 600
          /\ served.fetched <=> (served.written = now /\
                                  now \in fetch_times[gsis_id] /\
                                  tracking_cache[gsis_id] = served)
          /\ player_tracking = served.value
          /\ \A i \in DOMAIN player_tracking :
                player_tracking[i].gsis_id = gsis_id

C12_Witness ==
    /\ pc = "loaded"
    /\ ~served.fetched
    /\ served.written < now
    /\ Cardinality(fetch_times[gsis_id]) = 2
    /\ tracking_source = DatasetAfter
    /\ Len(player_tracking) = 2
    /\ Len(RowsOfPlayer(tracking_source, gsis_id)) = 3

(* C14: when the tracking source fails for a player id (connection error,  *)
(* missing dataset, missing gsis_id column) load_player_tracking returns   *)
(* an empty frame set and a message is shown; the tab shows the "no        *)
(* tracking data" state with the empty field and computes no statistic.    *)
C14_LoadFailureShowsEmptyState ==
    (Accessed /\ served.fetched /\ source_up # "ok") =>
        /\ player_tracking = <<>>
        /\ \E m \in ui : m = "Error loading tracking data: " \o source_up
        /\ pc \in {"loaded", "no_data"}
        /\ stats = EmptyDict
        /\ pc = "no_data" =>
              {"No tracking data found", "empty field"} \subseteq ui

C14_Witness ==
    /\ pc = "no_data"
    /\ served.fetched
    /\ source_up = "no gsis_id column"
    /\ ui = {"Error loading tracking data: no gsis_id column",
             "No tracking data found", "empty field"}

----------------------------------------------------------------------------
(* Loading the rankings                                                    *)

LoadAttempted == pc \in {"loaded", "crashed", "stopped", "sidebar", "done"}

NothingUsable ==
    \/ primary_source.up /\ primary_source.table = {}
    \/ ~primary_source.up /\ ~fallback_source.up
    \/ ~primary_source.up /\ fallback_source.table = {}

(* C13: when the primary source fails the secondary source is tried; when  *)
(* that fails too, or the loaded table is empty, the run halts with a      *)
(* visible error and neither the sidebar filters nor any of the five tabs  *)
(* is rendered in that run.                                                *)
C13_HaltsWithoutDashboard ==
    /\ (LoadAttempted /\ ~primary_source.up /\ fallback_source.up) =>
          rankings_df = fallback_source.table
    /\ (LoadAttempted /\ NothingUsable) =>
          /\ pc \in {"loaded", "crashed", "stopped"}
          /\ ui \cap DashboardComponents = {}
          /\ pc # "loaded" =>
                ui \cap {NoDataError, UncaughtException} # {}
    /\ pc = "done" => DashboardComponents \subseteq ui

C13_Witness ==
    /\ pc = "crashed"
    /\ ~primary_source.up
    /\ ~fallback_source.up
    /\ ui = {DataikuWarning, UncaughtException}

----------------------------------------------------------------------------
(* Ranking table and draft pick formatting                                 *)

(* C15, as stated: a missing field value is never fatal in a formatter:    *)
(* for every row, whatever fields are missing (a draft round without a     *)
(* pick included), format_draft_pick and the column formatters return a    *)
(* string and never raise.                                                 *)
C15_FormattersNeverRaise ==
    /\ ~Raised(draft_info)
    /\ UncaughtException \notin ui

TableRowOf(i) == PlayerData(filtered_df, great_table[i].Player)

ChosenKey(row) ==
    CASE sort_by = "Composite Rank" -> row.composite_rank
      [] sort_by = "RAS" -> row.RAS
      [] sort_by = "Athletic Rank" -> row.athletic_potential_rank
      [] sort_by = "College Rank" -> row.college_production_rank
      [] sort_by = "NFL Rank" -> row.nfl_production_rank

InChosenOrder(a, b) ==
    (ChosenKey(a) # NA /\ ChosenKey(b) # NA) =>
        IF sort_by = "RAS" THEN ChosenKey(a) >= ChosenKey(b)
                           ELSE ChosenKey(a) <= ChosenKey(b)

(* C16, as stated: within each category group of the table the rows are    *)
(* in the order of the chosen sort key, for each of the five choices       *)
(* (composite rank ascending, RAS descending, athletic, college and NFL    *)
(* rank ascending).                                                        *)
C16_GroupRowsInChosenOrder ==
    \A i, j \in DOMAIN great_table :
        (i < j /\ great_table[i].Category = great_table[j].Category) =>
            InChosenOrder(TableRowOf(i), TableRowOf(j))

FixedCategoryOrder ==
    <<"Elite", "Producer", "Prospect", "Riser", "Risk", "Developmental">>

Recognized(category) ==
    \E k \in DOMAIN FixedCategoryOrder : FixedCategoryOrder[k] = category

DisplayPosition(category) ==
    IF Recognized(category)
    THEN CHOOSE k \in DOMAIN FixedCategoryOrder :
             FixedCategoryOrder[k] = category
    ELSE Len(FixedCategoryOrder) + 1

CategoriesOf(rows) == [i \in DOMAIN rows |-> rows[i].Category]

(* C17: the category groups of the table are in the order Elite, Producer, *)
(* Prospect, Riser, Risk, Developmental whatever the order of the input    *)
(* (Producer, Elite, Developmental gives Elite, Producer, Developmental),  *)
(* each group is one block holding every row of its category, and every    *)
(* row of an unrecognized category comes after every row of a recognized   *)
(* one.                                                                    *)
C17_CategoryGroupsInFixedOrder ==
    "tab 4" \in ui =>
        /\ {great_table[i].Player : i \in DOMAIN great_table}
              = {r.id : r \in filtered_df}
        /\ Len(great_table) = Cardinality(filtered_df)
        /\ \A i, j \in DOMAIN great_table : i < j =>
              /\ DisplayPosition(great_table[i].Category)
                    <= DisplayPosition(great_table[j].Category)
              /\ ~(Recognized(great_table[j].Category) /\
                   ~Recognized(great_table[i].Category))
              /\ great_table[i].Category = great_table[j].Category =>
                    \A k \in i..j :
                        great_table[k].Category = great_table[i].Category
        /\ {great_table[i].Category : i \in DOMAIN great_table}
              = {"Producer", "Elite", "Developmental"} =>
                 \A i, j \in DOMAIN great_table :
                     (great_table[i].Category = "Elite" /\
                      great_table[j].Category # "Elite") \/
                     (great_table[i].Category = "Producer" /\
                      great_table[j].Category = "Developmental")
                       => i < j

C17_Witness ==
    /\ sort_by = "College Rank"
    /\ Len(sorted_df) = 3
    /\ [i \in DOMAIN sorted_df |-> sorted_df[i].player_category]
          = <<"Producer", "Elite", "Developmental">>
    /\ CategoriesOf(great_table) = <<"Elite", "Producer", "Developmental">>

(* C18: the formatted draft pick is exactly "UDFA" if and only if the      *)
(* draft round is missing, whatever the pick, and it is "R{round} #{pick}" *)
(* with the integer round and pick when both are present.                  *)
C18_DraftPickString ==
    draft_info # <<>> =>
        LET row == PlayerData(filtered_df, profile_select)
        IN  /\ draft_info = <<"return", "UDFA">> <=> row.draft_round = NA
            /\ (row.draft_round # NA /\ row.draft_overall_selection # NA) =>
                  draft_info =
                     <<"return", "R" \o ToString(row.draft_round) \o " #"
                                 \o ToString(row.draft_overall_selection)>>
            /\ (row.draft_round = 1 /\ row.draft_overall_selection = 15) =>
                  draft_info = <<"return", "R1 #15">>
            /\ (row.draft_round = 7 /\ row.draft_overall_selection = 250) =>
                  draft_info = <<"return", "R7 #250">>

C18_Witness ==
    /\ profile_select # NA
    /\ PlayerData(filtered_df, profile_select).draft_round = NA
    /\ PlayerData(filtered_df, profile_select).draft_overall_selection = 200
    /\ draft_info = <<"return", "UDFA">>

----------------------------------------------------------------------------
(* Heat map zone analysis                                                  *)

HeatMapShown == pc = "heat_map" /\ "Zone Analysis" \in ui

FramesWhere(Test(_)) == {i \in DOMAIN display_tracking : Test(display_tracking[i])}

ValidX == FramesWhere(LAMBDA f : f.x # NA)

ValidY == FramesWhere(LAMBDA f : f.y # NA)

InPercentRange(pct) == 0 <= pct[1] /\ pct[1] <= 100 * pct[2]

(* C19: for every frame set with at least one non-missing x, the count of  *)
(* frames with x < 60 plus the count with x >= 60 is the number of frames  *)
(* with a non-missing x, the left and right percentages sum to 100 and     *)
(* each lies in 0..100.                                                    *)
C19_LeftRightPartition ==
    (HeatMapShown /\ ValidX # {}) =>
        /\ zone_stats.left_side
              = Cardinality(FramesWhere(LAMBDA f : f.x # NA /\ f.x < 600))
        /\ zone_stats.right_side
              = Cardinality(FramesWhere(LAMBDA f : f.x >= 600))
        /\ zone_stats.left_side + zone_stats.right_side = Cardinality(ValidX)
        /\ zone_stats.total = Cardinality(ValidX)
        /\ RatEq(zone_stats.left_pct,
                 <<100 * zone_stats.left_side, Cardinality(ValidX)>>)
        /\ zone_stats.left_pct[1]
              + Percent(zone_stats.right_side, zone_stats.total)[1]
              = 100 * zone_stats.left_pct[2]
        /\ InPercentRange(zone_stats.left_pct)
        /\ InPercentRange(Percent(zone_stats.right_side, zone_stats.total))

C19_Witness ==
    /\ HeatMapShown
    /\ Len(display_tracking) = 3
    /\ Cardinality(ValidX) = 2
    /\ zone_stats.left_side = 1
    /\ zone_stats.right_side = 1
    /\ \E i \in ValidX : display_tracking[i].x = 600

(* C20, as stated: each zone percentage is the count of frames in the zone *)
(* over the number of frames with a valid coordinate of the zone's own     *)
(* dimension (end zone area: x < 30 or x > 90 over the non-missing x;      *)
(* middle band: 20 < y < 33.3 over the non-missing y), so every percentage *)
(* lies in 0..100 also when x and y are missing on different frames.       *)
C20_ZonePercentOfOwnDimension ==
    (HeatMapShown /\ ValidX # {} /\ ValidY # {}) =>
        /\ RatEq(zone_stats.deep_pct,
                 <<100 * Cardinality(FramesWhere(LAMBDA f :
                             f.x # NA /\ (f.x < 300 \/ f.x > 900))),
                   Cardinality(ValidX)>>)
        /\ RatEq(zone_stats.middle_pct,
                 <<100 * Cardinality(FramesWhere(LAMBDA f :
                             f.y > 200 /\ f.y < 333)),
                   Cardinality(ValidY)>>)
        /\ InPercentRange(zone_stats.deep_pct)
        /\ InPercentRange(zone_stats.middle_pct)

----------------------------------------------------------------------------
(* Tracking view properties                                                *)

FrameViewShown ==
    /\ pc = "view"
    /\ view_mode = "Frame-by-Frame"
    /\ Len(display_tracking) >= 1

(* C21, as stated: in the frame-by-frame view, for every sequence of       *)
(* n >= 1 frames and every selected index i in 0..n-1, the traveled path   *)
(* is exactly the frames at positions <= i and the remaining path exactly  *)
(* the frames at positions >= i, also at i = 0 and i = n-1.                *)
C21_PathsAtEveryIndex ==
    FrameViewShown =>
        /\ field_fig.history =
              SubSeq(display_tracking, 1, current_frame + 1)
        /\ field_fig.future =
              SubSeq(display_tracking, current_frame + 1,
                     Len(display_tracking))

(* C21, amended: with x and y columns, the selected index lies in 0..n-1;  *)
(* for i > 0 the traveled path is exactly the frames at positions <= i,    *)
(* for i < n-1 the remaining path is exactly the frames at positions >= i, *)
(* so away from the boundaries both contain the current frame; at i = 0 no *)
(* traveled path is drawn and at i = n-1 no remaining path is drawn.       *)
C21_PathsAwayFromBoundaries ==
    (FrameViewShown /\ {"x", "y"} \subseteq tracking_cols) =>
        LET n == Len(display_tracking)
            i == current_frame
        IN  /\ i \in 0..(n - 1)
            /\ field_fig.current = display_tracking[i + 1]
            /\ field_fig.history =
                  IF i > 0 THEN SubSeq(display_tracking, 1, i + 1) ELSE <<>>
            /\ field_fig.future =
                  IF i < n - 1 THEN SubSeq(display_tracking, i + 1, n)
                  ELSE <<>>

C21_Witness ==
    /\ FrameViewShown
    /\ {"x", "y"} \subseteq tracking_cols
    /\ Len(display_tracking) = 3
    /\ current_frame = 1
    /\ Len(field_fig.history) = 2
    /\ Len(field_fig.future) = 2
    /\ field_fig.history[2] = field_fig.future[1]

ViewShown == pc = "view" /\ Len(display_tracking) > 0

SelectedFrames ==
    PlayFrames(player_tracking, tracking_cols, play_view_option, play_select)

SameFrames(a, b) ==
    /\ Len(a) = Len(b)
    /\ \E f \in RowOrders(Len(a)) : b = [i \in 1..Len(a) |-> a[f[i]]]

TimesOf(df) == {df[k].ts : k \in DOMAIN df} \ {NA}

SourceOutOfOrder ==
    \E i, j \in DOMAIN tracking_source :
        /\ i < j
        /\ tracking_source[j].ts # NA
        /\ tracking_source[j].ts < tracking_source[i].ts

MarkersAtEnds ==
    /\ display_tracking[1].ts = SetMin(TimesOf(display_tracking))
    /\ display_tracking[Len(display_tracking)].ts =
          SetMax(TimesOf(display_tracking))
    /\ (view_mode = "Path View" /\ {"x", "y"} \subseteq tracking_cols) =>
          /\ field_fig.markers[1].ts = SetMin(TimesOf(display_tracking))
          /\ field_fig.markers[2].ts = SetMax(TimesOf(display_tracking))
          /\ SameFrames(display_tracking, field_fig.path)
    /\ (view_mode = "Frame-by-Frame" /\ field_fig.start # <<>>) =>
          field_fig.start[1].ts = SetMin(TimesOf(display_tracking))

FrameIndexInOrder ==
    view_mode = "Frame-by-Frame" =>
        /\ field_fig.current = display_tracking[current_frame + 1]
        /\ \A k \in 1..Len(display_tracking) :
              (display_tracking[k].ts # NA /\ field_fig.current.ts # NA) =>
                 /\ k < current_frame + 1 =>
                       display_tracking[k].ts <= field_fig.current.ts
                 /\ k > current_frame + 1 =>
                       display_tracking[k].ts >= field_fig.current.ts

(* C22, as stated: every rendering mode works on the play-filtered frames  *)
(* in ascending timestamp order, whatever the row order of the loaded      *)
(* data: the start marker is the frame with the smallest timestamp, the    *)
(* end marker the frame with the largest, and frame index i is the i-th    *)
(* frame in timestamp order.                                               *)
C22_AlwaysInTimestampOrder ==
    (ViewShown /\ TimesOf(display_tracking) # {}) =>
        /\ SameFrames(SelectedFrames, display_tracking)
        /\ MarkersAtEnds
        /\ FrameIndexInOrder

(* C22, amended: when the dataset has a ts column, every rendering mode    *)
(* works on the play-filtered frames ordered by timestamp ascending with   *)
(* the frames without a timestamp last, whatever the row order of the      *)
(* loaded data; frame index i is the i-th frame of that order, and when    *)
(* every displayed frame has a timestamp the start marker is the frame     *)
(* with the smallest and the end marker the frame with the largest one.    *)
C22_InTimestampOrderWhenTimed ==
    (ViewShown /\ "ts" \in tracking_cols) =>
        /\ SameFrames(SelectedFrames, display_tracking)
        /\ \A i, j \in 1..Len(display_tracking) :
              i < j => TsBefore(display_tracking[i], display_tracking[j])
        /\ FrameIndexInOrder
        /\ (\A k \in 1..Len(display_tracking) : display_tracking[k].ts # NA)
              => MarkersAtEnds

C22_Witness ==
    /\ ViewShown
    /\ "ts" \in tracking_cols
    /\ SourceOutOfOrder
    /\ view_mode = "Path View"
    /\ play_view_option = "Individual Play"
    /\ Len(display_tracking) = 2
    /\ Len(player_tracking) = 3
    /\ field_fig.markers # <<>>
    /\ field_fig.markers[1].ts = 2
    /\ field_fig.markers[2].ts = 3

MarkerShown == pc = "marker" /\ field_fig.marker # <<>>

(* the frame's speed in mph as a fraction: units / 409 * 2.045; a missing *)
(* speed or no speed column counts as 0                                   *)
MarkerMph ==
    LET s == IF "s" \in tracking_cols THEN field_fig.current.s ELSE 0
    IN  IF s = NA THEN <<0, 1>> ELSE <<s * 2045, 409 * 1000>>

(* C25: the colour of the current-position marker is a 3-tier             *)
(* classification of the frame's speed in mph (yards/sec times 2.045):     *)
(* above 15 the first colour, otherwise above 10 the second, otherwise the *)
(* third; exactly 15 mph and exactly 10 mph fall in the lower tier and a   *)
(* missing speed counts as 0 mph (third tier).                             *)
C25_MarkerColorTiers ==
    MarkerShown =>
        /\ field_fig.marker[1] =
              IF MarkerMph[1] > 15 * MarkerMph[2] THEN "red"
              ELSE IF MarkerMph[1] > 10 * MarkerMph[2] THEN "yellow"
              ELSE "lime"
        /\ RatEq(MarkerMph, <<15, 1>>) => field_fig.marker[1] = "yellow"
        /\ RatEq(MarkerMph, <<10, 1>>) => field_fig.marker[1] = "lime"
        /\ ("s" \in tracking_cols /\ field_fig.current.s = NA) =>
              field_fig.marker[1] = "lime"

C25_Witness ==
    /\ MarkerShown
    /\ Len(display_tracking) = 2
    /\ "s" \in tracking_cols
    /\ display_tracking[1].s = 3000
    /\ display_tracking[2].s = NA
    /\ current_frame = 0
    /\ RatEq(MarkerMph, <<15, 1>>)
    /\ field_fig.marker = <<"yellow">>

----------------------------------------------------------------------------
(* Ranking table names                                                     *)

NameRendered(name, cell) ==
    /\ (name # NaNText /\ Len(name) > 18) =>
          cell = SubSeq(name, 1, 15) \o "..."
    /\ (name # NaNText /\ Len(name) <= 18) => cell = name
    /\ name = NaNText => cell = EmDash
    /\ Len(cell) <= 18

(* C26: in the ranking table a team or college name longer than 18         *)
(* characters is rendered as its first 15 characters followed by an        *)
(* ellipsis, a name of 18 characters or fewer unchanged and a missing name *)
(* as an em-dash, so no team or college cell is longer than 18 characters. *)
C26_NamesTruncated ==
    \A i \in DOMAIN great_table :
        /\ NameRendered(TableRowOf(i).draft_club_name, great_table[i].NFL_Team)
        /\ NameRendered(TableRowOf(i).team_name, great_table[i].College)

C26_Witness ==
    /\ sort_by = "RAS"
    /\ \E i, j, k \in DOMAIN great_table :
          /\ TableRowOf(i).draft_club_name = "Jacksonville Jaguars"
          /\ great_table[i].NFL_Team = "Jacksonville Ja..."
          /\ great_table[j].NFL_Team = "Kansas City Chiefs"
          /\ great_table[k].College = EmDash

----------------------------------------------------------------------------
(* Failed tracking fetches and the cache                                   *)

ServedFailure == served.value = <<>> /\ served.messages # {}

(* C27, as stated: a failed tracking fetch does not poison the cache:      *)
(* after load_player_tracking has failed for a player id and returned the  *)
(* empty set, the next access for that id within 600 seconds fetches from  *)
(* the data source again instead of reusing the empty result.              *)
C27_FailedFetchNotReused ==
    (Accessed /\ ServedFailure /\ now - served.written < 600) =>
        served.fetched

----------------------------------------------------------------------------
(* Default filter settings                                                 *)

DefaultSettings ==
    /\ position_filter = "All"
    /\ selected_categories = AvailableCategories(rankings_df)
    /\ ras_range = <<0, 100>>
    /\ LET before == BeforeYearFilter(rankings_df, position_filter,
                                      selected_categories)
       IN  IF YearSliderShown(before)
           THEN year_range = YearSliderDefault(before)
           ELSE year_range = NoSlider

(* C28, as stated: with the default filter settings (position All, every   *)
(* offered category selected, the year slider at its full range, the RAS   *)
(* slider at 0.0..10.0) the working subset equals the full table: no row   *)
(* is dropped, rows with a missing draft_season and rows of a category     *)
(* outside the six known ones included.                                    *)
C28_DefaultsKeepEveryRow ==
    DefaultSettings => filtered_df = rankings_df

----------------------------------------------------------------------------
(* Player selection and radar chart properties                             *)

(* C29, as stated: selecting "POS - NAME" in the profile, compare or       *)
(* tracking selector resolves to the row that produced the option: when    *)
(* two rows share a display name the profile and tracking tabs show the    *)
(* row whose position and name both match, and the compare tab yields      *)
(* exactly one row per selected option.                                    *)
C29_SelectionResolvesToItsRow ==
    /\ selected_player_display # Placeholder =>
          PlayerOption(player_data) = selected_player_display
    /\ selected_tracking_player # Placeholder =>
          PlayerOption(player_info) = selected_tracking_player
    /\ Cardinality(compare_select) >= 2 =>
          /\ Len(compare_df) = Cardinality(compare_select)
          /\ {PlayerOption(compare_df[i]) : i \in DOMAIN compare_df}
                = compare_select

PlottedScore(score) == IF score = NA THEN 0 ELSE score

(* C30, as stated: in the radar chart each of the three plotted values is  *)
(* the pillar score when present and 0 when the score is missing, and the  *)
(* fourth plotted value repeats the first.                                 *)
C30_MissingScorePlottedAsZero ==
    radar_values # <<>> =>
        /\ radar_values[1] = PlottedScore(player_data.athletic_potential_score)
        /\ radar_values[2] = PlottedScore(player_data.college_production_score)
        /\ radar_values[3] = PlottedScore(player_data.nfl_production_score)
        /\ radar_values[4] = radar_values[1]

----------------------------------------------------------------------------
(* Comparison highlighting                                                 *)

(* the numeric cells of the pool and their values in tenths *)
CellTenths ==
    [cell \in {"85.0%"} |-> 850] @@ [cell \in {" 7.5 "} |-> 75]
       @@ [cell \in {"#3"} |-> 30] @@ [cell \in {"90.0"} |-> 900]

NumericCells ==
    {idx \in 2..Len(comparison_row) : comparison_row[idx] \in DOMAIN CellTenths}

TenthsAt(idx) == CellTenths[comparison_row[idx]]

BestTenths ==
    IF metrics_config[comparison_row[1]]
    THEN SetMax({TenthsAt(idx) : idx \in NumericCells})
    ELSE SetMin({TenthsAt(idx) : idx \in NumericCells})

(* C24: a cell that is missing, 'N/A', a dash, empty or not a number is    *)
(* left out of the best-value computation and never styled, and no error   *)
(* comes out of highlight_cells; with at least two numeric cells in a      *)
(* metric row exactly the cells equal to the maximum (higher-is-better     *)
(* metrics) or the minimum (rank metrics) get the best-value style, and    *)
(* with fewer than two numeric cells no cell is highlighted.               *)
C24_BestValueHighlight ==
    pc = "styled" =>
        /\ DOMAIN cell_styles = DOMAIN comparison_row
        /\ \A idx \in DOMAIN comparison_row \ NumericCells :
              cell_styles[idx] = NoStyle
        /\ (comparison_row[1] \in DOMAIN metrics_config
               /\ Cardinality(NumericCells) >= 2) =>
              \A idx \in NumericCells :
                 cell_styles[idx] = BestStyle <=> TenthsAt(idx) = BestTenths
        /\ Cardinality(NumericCells) < 2 =>
              \A idx \in DOMAIN cell_styles : cell_styles[idx] = NoStyle

C24_Witness ==
    /\ pc = "styled"
    /\ comparison_row = <<"Athletic Rank", "abc", "#3", " 7.5 ">>
    /\ cell_styles = <<NoStyle, NoStyle, BestStyle, NoStyle>>

----------------------------------------------------------------------------
(* Empty selections                                                        *)

Rendered == pc = "rendered"

AllTabs == {"tab 1", "tab 2", "tab 3", "tab 4", "tab 5"}

RoundWithoutPick(r) == r.draft_round # NA /\ r.draft_overall_selection = NA

NoFramesForPlay == player_tracking # <<>> /\ display_tracking = <<>>

====
